---- MODULE Spec2Model ----
(***************************************************************************)
(* The stack-based instruction VM of the ZZLE robot puzzle, in its         *)
(* implementations: Solver.executeProgram (the solver's run-to-completion  *)
(* interpreter), GameEngine.step (the interactive interpreter) and         *)
(* FinalSolver.executeWithLoopDetection; and the synthesis engines         *)
(* ConstraintSolver.solve and FinalSolver.solve with their candidate       *)
(* generators.                                                             *)
(*                                                                         *)
(* One behaviour is one run of one interpreter on one (level, program,     *)
(* step cap) input chosen by Init, or one call of solve() on one level.    *)
(***************************************************************************)
EXTENDS Integers, Sequences, FiniteSets, TLC

VARIABLES
    vm,                \* which interpreter runs: "solver", "engine", "final"; "none" in a search
    levelData,         \* the level handed to the interpreter
    programFunctions,  \* the program handed to it: a sequence of functions
    maxSteps,          \* executeProgram's step cap; for the GameEngine, which
                       \* has none, the number of steps the model follows it
    state,             \* the run's state object: x, y, dir, stars, board, stack, steps
    status,            \* GameEngine: state.status ("ready", "won", "failed")
    result,            \* Solver: the object executeProgram returned, once it has
    hist,              \* history: one entry per popped instruction (see Record)
    stateCache,        \* FinalSolver: this.stateCache, the state keys seen
    run,               \* the number of the execution in progress (1 or 2)
    first,             \* what the first execution ended with, once it has
    search,            \* a synthesis engine's solve(): its locals and its position
    solverObject,      \* a Solver object: this.running and the calls of solve() on it
    calc               \* a function under study: its arguments and what it gave

vars == <<vm, levelData, programFunctions, maxSteps, state, status, result, hist,
          stateCache, run, first, search, solverObject, calc>>

(***************************************************************************)
(* Bounds of the model.                                                    *)
(***************************************************************************)
\* longest function body of an enumerated program
MaxLen == 2
\* longest corridor level (tiles between the robot and the star)
MaxLine == 5
\* the two step caps executeProgram is run with
SmallCap == 3
MaxSteps == 10
\* the GameEngine has no step cap: the model stops stepping it here
MaxEngineSteps == 10

(***************************************************************************)
(* Program constants.                                                      *)
(***************************************************************************)
INST == [NO |-> 0, FW |-> 1, TL |-> 2, TR |-> 3, P1 |-> 4, P2 |-> 5, P3 |-> 6,
         F0 |-> 7, F1 |-> 8, F2 |-> 9]

COND == [C1 |-> 1, C2 |-> 2, C3 |-> 3]

\* the board is 16 x 16: the bounds test of Forward
BoardSize == 16

\* a stack longer than this at the top of a step is a stack overflow
StackLimit == 100

\* direction encoding 0=left, 1=up, 2=right, 3=down; indexed by dir + 1
dxStandard == <<0, 1, 0, -1>>

dx == <<-1, 0, 1, 0>>

dy == <<0, -1, 0, 1>>

(***************************************************************************)
(* Instruction decoding.                                                   *)
(***************************************************************************)
\* JavaScript's null, which ConstraintSolver.fillFunction leaves in a program
Null == -1

\* the number an instruction is in arithmetic: null counts as 0
numeric(instr) == IF instr = Null THEN 0 ELSE instr

\* Math.floor(instr / 100)
decodeCond(instr) == numeric(instr) \div 100

\* instr % 100
decodeOpcode(instr) == numeric(instr) % 100

tileColor(tileValue) == tileValue % 4

currentTile(st) == st.board[st.y][st.x]

\* the guard of instr fails on the tile the robot stands on
guardFails(st, instr) ==
    /\ decodeCond(instr) > 0
    /\ tileColor(currentTile(st)) # decodeCond(instr)

(***************************************************************************)
(* Solver.buildInstructionSet: the unconditional opcodes in the order of   *)
(* activeInstructions, then every condition combined with every opcode.    *)
(***************************************************************************)
IsOpcodeName(name) == name \in DOMAIN INST

IsCondName(name) == name \in DOMAIN COND

buildInstructionSet(activeInstructions) ==
    LET opnames == SelectSeq(activeInstructions, IsOpcodeName)
        cnames  == SelectSeq(activeInstructions, IsCondName)
        m       == Len(opnames)
        unconditional == [i \in 1..m |-> INST[opnames[i]]]
        conditional ==
            [k \in 1..(Len(cnames) * m) |->
                COND[cnames[((k - 1) \div m) + 1]] * 100
                    + INST[opnames[((k - 1) % m) + 1]]]
    IN  unconditional \o conditional

(***************************************************************************)
(* The opcodes.  Each takes the state after the pop (stack shifted, steps  *)
(* incremented) and gives the state after the opcode.                      *)
(***************************************************************************)
newX(st) == st.x + dx[st.dir + 1]

newY(st) == st.y + dy[st.dir + 1]

outOfBounds(st) ==
    \/ newX(st) < 0
    \/ newX(st) >= BoardSize
    \/ newY(st) < 0
    \/ newY(st) >= BoardSize

\* Forward fails: the destination is off the board or a void tile
forwardDiesNoVoidCheck(st) == outOfBounds(st)

forwardDies(st) ==
    \/ outOfBounds(st)
    \/ st.board[newY(st)][newX(st)] = 0

collectStarKeepTile(st, nx, ny) ==
    [st EXCEPT !.stars = st.stars - 1]

\* the star pickup of a successful Forward onto (nx, ny)
collectStar(st, nx, ny) ==
    [st EXCEPT !.board[ny][nx] = st.board[ny][nx] - 4,
               !.stars = st.stars - 1]

\* a successful Forward
moveForward(st) ==
    LET nx == newX(st)
        ny == newY(st)
        targetCell == st.board[ny][nx]
        moved == [st EXCEPT !.x = nx, !.y = ny]
    IN  IF targetCell > 3 THEN collectStar(moved, nx, ny) ELSE moved

turnLeftMinusOne(dir) == IF dir = 0 THEN -1 ELSE dir - 1

turnLeft(dir) == (dir + 3) % 4

turnRight(dir) == (dir + 1) % 4

paintTileAdding(st, color) ==
    [st EXCEPT !.board[st.y][st.x] = st.board[st.y][st.x] + color]

paintTileDropStar(st, color) ==
    [st EXCEPT !.board[st.y][st.x] = color]

paintTile(st, color) ==
    [st EXCEPT !.board[st.y][st.x] =
        color + (IF st.board[st.y][st.x] > 3 THEN 4 ELSE 0)]

\* Object identity.  state.board and state.stack are references: each
\* designates an array of the run's own, or an array of the inputs.
Own == "own"

shared(owner) == owner

\* board.map(row => [...row]) and [...programFunctions[0]] build new arrays
copied(owner) == Own

\* the level, after the run's writes through state.board
levelAfter(level, st) ==
    IF st.boardOf = Own THEN level ELSE [level EXCEPT !.board = st.board]

\* the program, after state.stack.shift()
programAfter(program, st) ==
    IF st.stackOf = Own THEN program ELSE [program EXCEPT ![1] = st.stack]

prependAppended(func, stack) == stack \o func

\* state.stack = [...func, ...state.stack]
prepend(func, stack) == func \o stack

\* programFunctions[funcIndex] is an array (funcIndex counts from 0)
functionDefined(funcIndex) == (funcIndex + 1) \in DOMAIN programFunctions

\* Solver.executeProgram: calling a slot the program lacks changes nothing
solverCall(st, funcIndex) ==
    IF functionDefined(funcIndex)
    THEN [st EXCEPT !.stack = prepend(programFunctions[funcIndex + 1], st.stack),
                    !.stackOf = Own]
    ELSE st

\* the switch of Solver.executeProgram, Forward's failure apart
solverOpcode(st, opcode) ==
    CASE opcode = INST.FW -> moveForward(st)
      [] opcode = INST.TL -> [st EXCEPT !.dir = turnLeft(st.dir)]
      [] opcode = INST.TR -> [st EXCEPT !.dir = turnRight(st.dir)]
      [] opcode = INST.P1 -> paintTile(st, 1)
      [] opcode = INST.P2 -> paintTile(st, 2)
      [] opcode = INST.P3 -> paintTile(st, 3)
      [] opcode \in {INST.F0, INST.F1, INST.F2} -> solverCall(st, opcode - INST.F0)
      [] OTHER -> st

\* GameEngine.executeOpcode returns false: Forward fails, the called slot
\* is not defined, or the opcode is unknown
engineOpcodeFails(st, opcode) ==
    CASE opcode = INST.FW -> forwardDies(st)
      [] opcode \in {INST.F0, INST.F1, INST.F2} -> ~functionDefined(opcode - INST.F0)
      [] opcode \in {INST.NO, INST.TL, INST.TR, INST.P1, INST.P2, INST.P3} -> FALSE
      [] OTHER -> TRUE

\* GameEngine.executeOpcode, when it returns true
engineOpcode(st, opcode) ==
    CASE opcode = INST.NO -> st
      [] opcode = INST.FW -> moveForward(st)
      [] opcode = INST.TL -> [st EXCEPT !.dir = turnLeft(st.dir)]
      [] opcode = INST.TR -> [st EXCEPT !.dir = turnRight(st.dir)]
      [] opcode = INST.P1 -> paintTile(st, 1)
      [] opcode = INST.P2 -> paintTile(st, 2)
      [] opcode = INST.P3 -> paintTile(st, 3)
      [] opcode \in {INST.F0, INST.F1, INST.F2} ->
            [st EXCEPT !.stack =
                          prepend(programFunctions[opcode - INST.F0 + 1], st.stack),
                       !.stackOf = Own]

\* const instr = state.stack.shift(); state.steps++
pop(st) == [st EXCEPT !.stack = Tail(st.stack), !.steps = st.steps + 1]

guardFailedSkipsNext(st) ==
    IF Len(st.stack) > 0 THEN [st EXCEPT !.stack = Tail(st.stack)] ELSE st

\* a failed guard: `continue` (Solver), `return true` (GameEngine)
guardFailed(st) == st

(***************************************************************************)
(* The levels and programs the interpreters are run on.                    *)
(***************************************************************************)
Coords == 0..(BoardSize - 1)

\* a board that is void except for the given cells (<<x, y>> :> value)
BoardWith(cells) ==
    [y \in Coords |-> [x \in Coords |->
        IF <<x, y>> \in DOMAIN cells THEN cells[<<x, y>>] ELSE 0]]

\* level 1's shape: one star n tiles straight ahead of the robot at (5, 7)
\* facing right, instructions FW and F0, one function of two slots
Corridor(n) ==
    [board |-> BoardWith([c \in {<<5 + i, 7>> : i \in 0..n} |->
                             IF c[1] = 5 + n THEN 5 ELSE 1]),
     player |-> [x |-> 5, y |-> 7, direction |-> 2],
     stars |-> 1,
     activeInstructions |-> <<"FW", "F0">>,
     functions |-> <<[length |-> 2]>>]

\* a 2 x 2 patch in the top-left corner, three stars, one of them under
\* the robot; F1 is not a slot here
CornerLevel(d) ==
    [board |-> BoardWith(<<0, 0>> :> 5 @@ <<1, 0>> :> 5 @@
                         <<0, 1>> :> 2 @@ <<1, 1>> :> 6),
     player |-> [x |-> 0, y |-> 0, direction |-> d],
     stars |-> 3,
     activeInstructions |-> <<"FW", "TL", "TR", "F0", "F1">>,
     functions |-> <<[length |-> 4]>>]

\* the bottom-right corner; the robot starts on a star tile of colour 2
PaintLevel(d) ==
    [board |-> BoardWith(<<15, 15>> :> 6 @@ <<14, 15>> :> 1 @@
                         <<15, 14>> :> 7 @@ <<14, 14>> :> 3),
     player |-> [x |-> 15, y |-> 15, direction |-> d],
     stars |-> 2,
     activeInstructions |-> <<"NO", "FW", "P1", "P2", "P3", "C2">>,
     functions |-> <<[length |-> 4]>>]

\* two functions and guarded calls; (4, 3) holds a star on a colourless tile
CallLevel ==
    [board |-> BoardWith(<<3, 3>> :> 1 @@ <<4, 3>> :> 4 @@ <<5, 3>> :> 6),
     player |-> [x |-> 3, y |-> 3, direction |-> 2],
     stars |-> 2,
     activeInstructions |-> <<"FW", "F1", "C1">>,
     functions |-> <<[length |-> 4], [length |-> 1]>>]

Levels ==
    {Corridor(n) : n \in 1..MaxLine}
        \cup {CornerLevel(d) : d \in 0..3}
        \cup {PaintLevel(d) : d \in {1, 2}}
        \cup {CallLevel}

SeqsUpTo(S, n) == UNION {[1..k -> S] : k \in 0..n}

Range(seq) == {seq[i] : i \in DOMAIN seq}

\* every program of the level: one sequence over its instruction set per
\* function slot, no longer than the slot's budget (and than MaxLen)
Programs(level) ==
    LET instrs == Range(buildInstructionSet(level.activeInstructions))
    IN  {p \in [1..Len(level.functions) -> SeqsUpTo(instrs, MaxLen)] :
            \A f \in DOMAIN p : Len(p[f]) <= level.functions[f].length}

\* longer programs of interest, for the levels whose instruction set and
\* budgets allow them
LongPrograms(level) ==
    {p \in {<< <<INST.FW, INST.TL, INST.TL, INST.F0>> >>,
            << <<INST.TL, INST.TL, INST.TL, INST.TL>> >>,
            << <<INST.TR, INST.TR, INST.TR, INST.TR>> >>,
            << <<INST.FW, COND.C1 * 100 + INST.F1, INST.FW>>, <<INST.FW>> >>} :
        /\ Len(p) = Len(level.functions)
        /\ \A f \in DOMAIN p :
              /\ Len(p[f]) <= level.functions[f].length
              /\ Range(p[f]) \subseteq
                    Range(buildInstructionSet(level.activeInstructions))}

StepCaps == {SmallCap, MaxSteps}

(***************************************************************************)
(* Initial state: Solver.executeProgram's `let state = {...}`, and         *)
(* GameEngine.reset followed by GameEngine.loadProgram.                    *)
(***************************************************************************)
initialStateCollectingStart(level, program) ==
    [x |-> level.player.x,
     y |-> level.player.y,
     dir |-> level.player.direction,
     stars |-> level.stars
        - (IF level.board[level.player.y][level.player.x] > 3 THEN 1 ELSE 0),
     board |-> level.board,
     boardOf |-> copied("levelData.board"),
     stack |-> IF 1 \in DOMAIN program THEN program[1] ELSE <<>>,
     stackOf |-> IF 1 \in DOMAIN program
                 THEN copied("programFunctions[0]") ELSE Own,
     steps |-> 0]

initialState(level, program) ==
    [x |-> level.player.x,
     y |-> level.player.y,
     dir |-> level.player.direction,
     stars |-> level.stars,
     board |-> level.board,
     boardOf |-> copied("levelData.board"),
     stack |-> IF 1 \in DOMAIN program THEN program[1] ELSE <<>>,
     stackOf |-> IF 1 \in DOMAIN program
                 THEN copied("programFunctions[0]") ELSE Own,
     steps |-> 0]

NoResult == [returned |-> FALSE]

\* no solve() is in progress, no function is under study
Idle == [pc |-> "idle"]

Init ==
    /\ levelData \in Levels
    /\ programFunctions \in Programs(levelData) \cup LongPrograms(levelData)
    /\ \/ vm = "solver" /\ maxSteps \in StepCaps
       \/ vm = "engine" /\ maxSteps = MaxEngineSteps
    /\ state = initialState(levelData, programFunctions)
    /\ status = "ready"
    /\ result = NoResult
    /\ hist = <<>>
    /\ stateCache = {}
    /\ run = 1
    /\ first = NoResult
    /\ search = Idle
    /\ solverObject = Idle
    /\ calc = Idle

(***************************************************************************)
(* History: one entry per popped instruction, holding the instruction and  *)
(* the state at the top of that step.  It is written, never read, by the   *)
(* interpreters.                                                           *)
(***************************************************************************)
Record(instr) == Append(hist, [instr |-> instr, pre |-> state])

(***************************************************************************)
(* Solver.executeProgram.                                                  *)
(***************************************************************************)
afterLoopAlwaysFailed(st) == [returned |-> TRUE, solved |-> FALSE]

afterLoopAlwaysSolved(st) == [returned |-> TRUE, solved |-> TRUE, steps |-> st.steps]

stackOverflowAtLimit(st) == Len(st.stack) >= StackLimit

stackOverflowLate(st) == Len(st.stack) > StackLimit + 1

\* if (state.stack.length > 100)
stackOverflow(st) == Len(st.stack) > StackLimit

\* the code after the while loop
afterLoop(st) ==
    IF st.stars = 0
    THEN [returned |-> TRUE, solved |-> TRUE, steps |-> st.steps]
    ELSE [returned |-> TRUE, solved |-> FALSE]

loopConditionWithoutCap(st) == Len(st.stack) > 0

\* while (state.steps < maxSteps && state.stack.length > 0)
loopCondition(st) == st.steps < maxSteps /\ Len(st.stack) > 0

\* one iteration of the while loop
SolverIterate ==
    /\ vm = "solver"
    /\ ~result.returned
    /\ loopCondition(state)
    /\ IF state.stars = 0
       THEN /\ result' = [returned |-> TRUE, solved |-> TRUE, steps |-> state.steps]
            /\ UNCHANGED <<state, hist, levelData, programFunctions>>
       ELSE IF stackOverflow(state)
       THEN /\ result' = [returned |-> TRUE, solved |-> FALSE]
            /\ UNCHANGED <<state, hist, levelData, programFunctions>>
       ELSE LET instr == Head(state.stack)
                opcode == decodeOpcode(instr)
                popped == pop(state)
            IN  /\ hist' = Record(instr)
                /\ programFunctions' = programAfter(programFunctions, popped)
                /\ IF guardFails(popped, instr)
                   THEN /\ state' = guardFailed(popped)
                        /\ UNCHANGED result
                   ELSE IF opcode = INST.FW /\ forwardDies(popped)
                   THEN /\ state' = popped
                        /\ result' = [returned |-> TRUE, solved |-> FALSE]
                   ELSE /\ state' = solverOpcode(popped, opcode)
                        /\ UNCHANGED result
                /\ levelData' = levelAfter(levelData, state')
    /\ UNCHANGED <<vm, maxSteps, status, stateCache, run, first, search, solverObject, calc>>

\* the loop condition is false: the code after the loop returns
SolverReturn ==
    /\ vm = "solver"
    /\ ~result.returned
    /\ ~loopCondition(state)
    /\ result' = afterLoop(state)
    /\ UNCHANGED <<vm, levelData, programFunctions, maxSteps, state, status, hist,
                   stateCache, run, first, search, solverObject, calc>>

(***************************************************************************)
(* GameEngine.step: one call.  A call in status won or failed returns at   *)
(* once and changes nothing.  The engine has no step cap: the model pops   *)
(* no instruction once maxSteps (MaxEngineSteps) have been popped.         *)
(***************************************************************************)
EngineStep ==
    /\ vm = "engine"
    /\ status \notin {"won", "failed"}
    /\ IF state.stars = 0
       THEN /\ status' = "won"
            /\ UNCHANGED <<state, hist, levelData, programFunctions>>
       ELSE IF Len(state.stack) = 0
       THEN /\ status' = "failed"
            /\ UNCHANGED <<state, hist, levelData, programFunctions>>
       ELSE IF stackOverflow(state)
       THEN /\ status' = "failed"
            /\ UNCHANGED <<state, hist, levelData, programFunctions>>
       ELSE LET instr == Head(state.stack)
                opcode == decodeOpcode(instr)
                popped == pop(state)
            IN  /\ state.steps < maxSteps
                /\ hist' = Record(instr)
                /\ programFunctions' = programAfter(programFunctions, popped)
                /\ IF guardFails(popped, instr)
                   THEN /\ state' = guardFailed(popped)
                        /\ UNCHANGED status
                   ELSE IF engineOpcodeFails(popped, opcode)
                   THEN /\ state' = popped
                        /\ status' = "failed"
                   ELSE /\ state' = engineOpcode(popped, opcode)
                        /\ UNCHANGED status
                /\ levelData' = levelAfter(levelData, state')
    /\ UNCHANGED <<vm, maxSteps, result, stateCache, run, first, search, solverObject, calc>>

Next == SolverIterate \/ SolverReturn \/ EngineStep

Spec == Init /\ [][Next]_vars

(***************************************************************************)
(* Solver.executeProgram alone (AdvancedSolver.executeProgram is the same  *)
(* code).  It is a sequential loop: an iteration that can be taken is      *)
(* taken.                                                                  *)
(***************************************************************************)
InitSolver == Init /\ vm = "solver"

NextSolver == SolverIterate \/ SolverReturn

SpecSolver == InitSolver /\ [][NextSolver]_vars /\ WF_vars(NextSolver)

(***************************************************************************)
(* The same interpreters on programs that call themselves until the stack  *)
(* passes the limit, with a step cap high enough to get there.             *)
(***************************************************************************)
\* the step cap of these runs
DeepSteps == 52

\* F0 calls itself four times (the stack grows by 3 per step: 4, 7, ...,
\* 100, 103), three times (by 2 per step: 3, 5, ..., 99, 101), or once
\* after a turn (the stack does not grow)
DeepPrograms ==
    {<< <<INST.F0, INST.F0, INST.F0, INST.F0>> >>,
     << <<INST.F0, INST.F0, INST.F0>> >>,
     << <<INST.TL, INST.F0>> >>}

InitDeep ==
    /\ levelData \in {CornerLevel(d) : d \in 0..3}
    /\ programFunctions \in DeepPrograms
    /\ vm \in {"solver", "engine"}
    /\ maxSteps = DeepSteps
    /\ state = initialState(levelData, programFunctions)
    /\ status = "ready"
    /\ result = NoResult
    /\ hist = <<>>
    /\ stateCache = {}
    /\ run = 1
    /\ first = NoResult
    /\ search = Idle
    /\ solverObject = Idle
    /\ calc = Idle

SpecDeep == InitDeep /\ [][Next]_vars

(***************************************************************************)
(* FinalSolver.executeWithLoopDetection: Solver.executeProgram with a      *)
(* cache of the state keys seen at the top of each step.                   *)
(***************************************************************************)
\* executeWithLoopDetection's default step cap
DefaultMaxSteps == 1000

\* state.stack.slice(0, 5)
PreviewLength == 5

\* a number as the characters of its decimal form (numbers below 100)
decimal(n) == IF n < 10 THEN <<n>> ELSE <<n \div 10, n % 10>>

\* hashBoard's inner loop from column x on: the string
\* `${x}${y}${board[y][x]}` of every cell of row y that is not void
RECURSIVE hashRow(_, _, _)
hashRow(board, y, x) ==
    IF x = BoardSize
    THEN <<>>
    ELSE (IF board[y][x] > 0
          THEN decimal(x) \o decimal(y) \o decimal(board[y][x])
          ELSE <<>>) \o hashRow(board, y, x + 1)

\* hashBoard's outer loop from row y on
RECURSIVE hashRows(_, _)
hashRows(board, y) ==
    IF y = BoardSize
    THEN <<>>
    ELSE hashRow(board, y, 0) \o hashRows(board, y + 1)

hashBoard(board) == hashRows(board, 0)

stackPreview(stack) ==
    SubSeq(stack, 1, IF Len(stack) < PreviewLength THEN Len(stack) ELSE PreviewLength)

hashStateWithSteps(st) ==
    <<st.x, st.y, st.dir, st.stars, stackPreview(st.stack), hashBoard(st.board),
      st.steps>>

\* the key `${x},${y},${dir},${stars},${stackPreview},${boardHash}`: its
\* comma-separated fields, the instructions of the preview kept apart
hashState(st) ==
    <<st.x, st.y, st.dir, st.stars, stackPreview(st.stack), hashBoard(st.board)>>

keptCache(cache) == cache

\* this.stateCache.clear()
clearedCache(cache) == {}

\* a call: only a function that is defined and not empty is prepended
finalCall(st, funcIndex) ==
    IF functionDefined(funcIndex) /\ Len(programFunctions[funcIndex + 1]) > 0
    THEN [st EXCEPT !.stack = prepend(programFunctions[funcIndex + 1], st.stack),
                    !.stackOf = Own]
    ELSE st

finalOpcode(st, opcode) ==
    IF opcode \in {INST.F0, INST.F1, INST.F2}
    THEN finalCall(st, opcode - INST.F0)
    ELSE solverOpcode(st, opcode)

finalLoopCondition(st) ==
    /\ st.steps < maxSteps
    /\ Len(st.stack) > 0
    /\ Len(st.stack) <= StackLimit

LoopDetected == [returned |-> TRUE, solved |-> FALSE, loopDetected |-> TRUE]

\* one iteration of the while loop
FinalIterate ==
    /\ vm = "final"
    /\ ~result.returned
    /\ finalLoopCondition(state)
    /\ IF state.stars = 0
       THEN /\ result' = [returned |-> TRUE, solved |-> TRUE, steps |-> state.steps]
            /\ UNCHANGED <<state, hist, stateCache, levelData, programFunctions>>
       ELSE IF hashState(state) \in stateCache
       THEN /\ result' = LoopDetected
            /\ UNCHANGED <<state, hist, stateCache, levelData, programFunctions>>
       ELSE LET instr == Head(state.stack)
                opcode == decodeOpcode(instr)
                popped == pop(state)
            IN  /\ stateCache' = stateCache \cup {hashState(state)}
                /\ hist' = Record(instr)
                /\ programFunctions' = programAfter(programFunctions, popped)
                /\ IF guardFails(popped, instr)
                   THEN /\ state' = guardFailed(popped)
                        /\ UNCHANGED result
                   ELSE IF opcode = INST.FW /\ forwardDies(popped)
                   THEN /\ state' = popped
                        /\ result' = [returned |-> TRUE, solved |-> FALSE]
                   ELSE /\ state' = finalOpcode(popped, opcode)
                        /\ UNCHANGED result
                /\ levelData' = levelAfter(levelData, state')
    /\ UNCHANGED <<vm, maxSteps, status, run, first, search, solverObject, calc>>

\* the loop condition is false: the code after the loop returns
FinalReturn ==
    /\ vm = "final"
    /\ ~result.returned
    /\ ~finalLoopCondition(state)
    /\ result' = afterLoop(state)
    /\ UNCHANGED <<vm, levelData, programFunctions, maxSteps, state, status, hist,
                   stateCache, run, first, search, solverObject, calc>>

\* one tile under the robot at (x, y), one star tile at (8, 8); the
\* instructions are TurnLeft and Call0
SpinLevel(x, y, d) ==
    [board |-> BoardWith(<<x, y>> :> 1 @@ <<8, 8>> :> 5),
     player |-> [x |-> x, y |-> y, direction |-> d],
     stars |-> 1,
     activeInstructions |-> <<"TL", "F0">>,
     functions |-> <<[length |-> 2]>>]

SpinLevels == {SpinLevel(x, y, d) : x \in {0, 7, 15}, y \in {0, 7, 15}, d \in 0..3}

InitFinal ==
    /\ levelData \in Levels \cup SpinLevels
    /\ programFunctions \in Programs(levelData) \cup LongPrograms(levelData)
    /\ vm = "final"
    /\ maxSteps \in {MaxSteps, DefaultMaxSteps}
    /\ state = initialState(levelData, programFunctions)
    /\ status = "ready"
    /\ result = NoResult
    /\ hist = <<>>
    /\ stateCache = clearedCache({})
    /\ run = 1
    /\ first = NoResult
    /\ search = Idle
    /\ solverObject = Idle
    /\ calc = Idle

NextFinal == FinalIterate \/ FinalReturn

\* the runs on the levels whose instructions are turns and calls
InitSpin ==
    /\ InitFinal
    /\ levelData \in SpinLevels \cup {CornerLevel(d) : d \in 0..3}

\* executeWithLoopDetection is a sequential loop: an iteration that can be
\* taken is taken
SpecSpin == InitSpin /\ [][NextFinal]_vars /\ WF_vars(NextFinal)

(***************************************************************************)
(* Vocabulary of the properties.                                           *)
(***************************************************************************)
Solved ==
    \/ vm \in {"solver", "final"} /\ result.returned /\ result.solved
    \/ vm = "engine" /\ status = "won"

Failed ==
    \/ vm \in {"solver", "final"} /\ result.returned /\ ~result.solved
    \/ vm = "engine" /\ status = "failed"

Finished == Solved \/ Failed

(***************************************************************************)
(* A second execution on the same interpreter object with the same         *)
(* arguments: executeProgram or executeWithLoopDetection called again,     *)
(* GameEngine.reset and loadProgram called again.                          *)
(***************************************************************************)
\* what an execution ended with
Outcome == [solved |-> Solved, steps |-> state.steps, result |-> result, status |-> status]

ExecuteAgain ==
    /\ run = 1
    /\ Finished
    /\ run' = 2
    /\ first' = Outcome
    /\ state' = initialState(levelData, programFunctions)
    /\ stateCache' = IF vm = "final" THEN clearedCache(stateCache) ELSE stateCache
    /\ status' = "ready"
    /\ result' = NoResult
    /\ hist' = <<>>
    /\ UNCHANGED <<vm, levelData, programFunctions, maxSteps, search, solverObject, calc>>

InitTwice == Init \/ InitFinal

NextTwice == Next \/ NextFinal \/ ExecuteAgain

SpecTwice == InitTwice /\ [][NextTwice]_vars

\* the steps taken so far: step i popped hist[i].instr in state hist[i].pre
Steps == 1..Len(hist)

Pre(i) == hist[i].pre

\* the state after step i
Post(i) == IF i < Len(hist) THEN hist[i + 1].pre ELSE state

OpOf(i) == hist[i].instr % 100

CondOf(i) == hist[i].instr \div 100

\* the colour of the tile the robot stands on at the top of step i
ColourUnder(i) == Pre(i).board[Pre(i).y][Pre(i).x] % 4

GuardPasses(i) == CondOf(i) = 0 \/ CondOf(i) = ColourUnder(i)

\* step i executed opcode op (its guard, if any, passed)
Executes(i, op) == OpOf(i) = op /\ GuardPasses(i)

\* the cell ahead of the robot at the top of step i: 0=left, 1=up, 2=right, 3=down
AheadX(i) ==
    CASE Pre(i).dir = 0 -> Pre(i).x - 1
      [] Pre(i).dir = 2 -> Pre(i).x + 1
      [] OTHER -> Pre(i).x

AheadY(i) ==
    CASE Pre(i).dir = 1 -> Pre(i).y - 1
      [] Pre(i).dir = 3 -> Pre(i).y + 1
      [] OTHER -> Pre(i).y

FacesEdge(i) == AheadX(i) \notin 0..15 \/ AheadY(i) \notin 0..15

FacesVoid(i) == ~FacesEdge(i) /\ Pre(i).board[AheadY(i)][AheadX(i)] = 0

\* step i is a Forward onto a walkable tile
MovesForward(i) == Executes(i, 1) /\ ~FacesEdge(i) /\ ~FacesVoid(i)

\* robot pose, stars and board are the same in s and t
SameWorld(s, t) ==
    /\ s.x = t.x
    /\ s.y = t.y
    /\ s.dir = t.dir
    /\ s.stars = t.stars
    /\ s.board = t.board

\* step i popped exactly one instruction and counted one step
PopsOne(i) ==
    /\ Post(i).stack = Tail(Pre(i).stack)
    /\ Post(i).steps = Pre(i).steps + 1

IsDefinedCall(i) ==
    /\ OpOf(i) \in {7, 8, 9}
    /\ GuardPasses(i)
    /\ (OpOf(i) - 7 + 1) \in DOMAIN programFunctions

Callee(i) == programFunctions[OpOf(i) - 7 + 1]

(***************************************************************************)
(* C1: a call CallN whose guard passes, of a function N the program        *)
(* defines, leaves as the new stack exactly function N's instructions      *)
(* followed by the unchanged remainder of the old stack; nothing else of   *)
(* the robot or board changes.                                             *)
(***************************************************************************)
C1_CallPrepends ==
    \A i \in Steps :
        IsDefinedCall(i) =>
            /\ Post(i).stack = Callee(i) \o Tail(Pre(i).stack)
            /\ Post(i).steps = Pre(i).steps + 1
            /\ SameWorld(Pre(i), Post(i))

\* a call of a non-empty function with caller instructions left behind it,
\* after which the whole callee body and then the caller's next instruction
\* have been popped
C1_Witness ==
    \E i \in Steps :
        /\ IsDefinedCall(i)
        /\ Len(Callee(i)) > 0
        /\ Len(Pre(i).stack) > 1
        /\ Callee(i) # Tail(Pre(i).stack)
        /\ i + Len(Callee(i)) + 1 <= Len(hist)
        /\ \A k \in 1..Len(Callee(i)) : OpOf(i + k) \notin {7, 8, 9}
        /\ hist[i + Len(Callee(i)) + 1].instr = Pre(i).stack[2]

ForwardCall0 == << <<1, 7>> >>

CorridorLength == CHOOSE n \in 1..MaxLine : levelData = Corridor(n)

ForwardsUpTo(i) == Cardinality({k \in 1..i : Executes(k, 1)})

CallsUpTo(i) == Cardinality({k \in 1..i : Executes(k, 7)})

C2_Case ==
    /\ programFunctions = ForwardCall0
    /\ \E n \in 1..MaxLine : levelData = Corridor(n)
    /\ vm = "solver" => maxSteps >= 2 * CorridorLength - 1
    /\ vm = "engine" => MaxEngineSteps >= 2 * CorridorLength - 1

(***************************************************************************)
(* C2: on the corridor with one star n tiles straight ahead, the program   *)
(* F0 = [Forward, Call0] ends Solved after exactly n forward moves and     *)
(* 2n-1 popped instructions (n Forward, n-1 Call0); the star count becomes *)
(* 0 on the n-th forward move and not before.  The step cap is at least    *)
(* 2n-1.                                                                   *)
(***************************************************************************)
C2_ForwardLoop ==
    C2_Case =>
        LET n == CorridorLength
        IN  /\ ~Failed
            /\ Len(hist) <= 2 * n - 1
            /\ \A i \in Steps : MovesForward(i) \/ Executes(i, 7)
            /\ \A i \in Steps : Post(i).stars = 0 <=> ForwardsUpTo(i) = n
            /\ state.stars = 0 <=> Len(hist) = 2 * n - 1
            /\ Solved =>
                 /\ state.steps = 2 * n - 1
                 /\ vm = "solver" => result.steps = 2 * n - 1
                 /\ ForwardsUpTo(Len(hist)) = n
                 /\ CallsUpTo(Len(hist)) = n - 1
            /\ (~Finished) => ENABLED Next

C2_Witness ==
    /\ levelData = Corridor(5)
    /\ programFunctions = ForwardCall0
    /\ Solved
    /\ ForwardsUpTo(Len(hist)) = 5
    /\ Post(Len(hist)).stars = 0
    /\ Pre(Len(hist)).stars = 1

(***************************************************************************)
(* C3: the win test comes before every failure test.  No instruction is    *)
(* popped while the star count is 0; the step taken from a state whose     *)
(* star count is 0 ends the run Solved (with the step count reached),      *)
(* whether the stack is empty, over the limit or the step cap is reached;  *)
(* and that step can always be taken.                                      *)
(***************************************************************************)
C3_WinFirst ==
    /\ [](\A i \in Steps : Pre(i).stars # 0)
    /\ [](state.stars = 0 /\ Finished =>
            Solved /\ (vm = "solver" => result.steps = state.steps))
    /\ [](state.stars = 0 /\ ~Finished => ENABLED Next)
    /\ [][state.stars = 0 => Solved' /\ state' = state]_vars

\* a run that is Solved with the stack empty and the step cap reached
C3_Witness ==
    /\ vm = "solver"
    /\ Solved
    /\ Len(hist) > 0
    /\ Len(state.stack) = 0
    /\ state.steps = maxSteps

(***************************************************************************)
(* C4: a run is Solved only with a star count of 0; the step taken from a  *)
(* state with an empty stack and stars remaining ends the run as a         *)
(* failure, and that step can always be taken.                             *)
(***************************************************************************)
C4_SolvedOnlyAtZero ==
    /\ [](Solved => state.stars = 0)
    /\ [](Len(state.stack) = 0 /\ state.stars # 0 /\ ~Finished => ENABLED Next)
    /\ [][Len(state.stack) = 0 /\ state.stars # 0 => Failed' /\ state' = state]_vars

\* a run whose last instruction was a turn, failed with stars left over,
\* the stack empty and the step cap not reached
C4_Witness ==
    /\ Failed
    /\ Len(hist) > 0
    /\ Executes(Len(hist), 2)
    /\ Len(state.stack) = 0
    /\ state.stars > 0
    /\ vm = "solver" => state.steps < maxSteps

HeadGuardFails ==
    /\ Len(state.stack) > 0
    /\ Head(state.stack) \div 100 > 0
    /\ state.board[state.y][state.x] % 4 # Head(state.stack) \div 100

(***************************************************************************)
(* C5: a guarded instruction whose guard fails pops that one instruction   *)
(* and counts one step; pose, stars and board are unchanged, the function  *)
(* of a guarded call is not prepended, the run does not end by it, and the *)
(* instruction behind it is the next one popped.                           *)
(***************************************************************************)
C5_FailedGuardIsNoOp ==
    /\ [](\A i \in Steps :
            ~GuardPasses(i) =>
                /\ PopsOne(i)
                /\ SameWorld(Pre(i), Post(i))
                /\ i < Len(hist) => hist[i + 1].instr = Pre(i).stack[2])
    /\ [][hist' # hist /\ HeadGuardFails => ~Finished']_vars

\* a guarded call of a non-empty function whose guard failed, followed by
\* a forward move
C5_Witness ==
    \E i \in Steps :
        /\ ~GuardPasses(i)
        /\ OpOf(i) \in {7, 8, 9}
        /\ (OpOf(i) - 7 + 1) \in DOMAIN programFunctions
        /\ Len(Callee(i)) > 0
        /\ i < Len(hist)
        /\ MovesForward(i + 1)

(***************************************************************************)
(* C6: a Forward executed while the robot faces the board edge or a void   *)
(* tile ends the run as a failure at once: pose, stars and board are those *)
(* before the move and it is the last instruction popped.                  *)
(***************************************************************************)
C6_ForwardIntoVoidDies ==
    \A i \in Steps :
        Executes(i, 1) /\ (FacesEdge(i) \/ FacesVoid(i)) =>
            /\ i = Len(hist)
            /\ Failed
            /\ SameWorld(Pre(i), state)

\* a Forward into a void tile with instructions still on the stack
C6_Witness ==
    /\ Len(hist) > 0
    /\ Executes(Len(hist), 1)
    /\ FacesVoid(Len(hist))
    /\ Len(state.stack) > 0
    /\ Failed

\* a Forward over the far edge of the board
C6_EdgeReached ==
    /\ Len(hist) > 0
    /\ Executes(Len(hist), 1)
    /\ AheadX(Len(hist)) = 16
    /\ Failed

AheadTile(i) == Pre(i).board[AheadY(i)][AheadX(i)]

HeldStar(tileValue) == tileValue \in 4..7

(***************************************************************************)
(* C7: a Forward onto a walkable tile moves the robot exactly one cell in  *)
(* its direction (0=left, 1=up, 2=right, 3=down) and changes nothing else, *)
(* except that a star on the destination tile is cleared (the tile keeps   *)
(* its colour) and the star count drops by one; a tile entered again later *)
(* gives no star.                                                          *)
(***************************************************************************)
C7_ForwardMoves ==
    /\ \A i \in Steps :
        MovesForward(i) =>
            /\ PopsOne(i)
            /\ Post(i).x = AheadX(i)
            /\ Post(i).y = AheadY(i)
            /\ Post(i).dir = Pre(i).dir
            /\ Post(i).board =
                  [Pre(i).board EXCEPT ![AheadY(i)][AheadX(i)] =
                      Post(i).board[AheadY(i)][AheadX(i)]]
            /\ LET before == AheadTile(i)
                   after == Post(i).board[AheadY(i)][AheadX(i)]
               IN  IF HeldStar(before)
                   THEN /\ ~HeldStar(after)
                        /\ after % 4 = before % 4
                        /\ Post(i).stars = Pre(i).stars - 1
                   ELSE /\ after = before
                        /\ Post(i).stars = Pre(i).stars
    /\ \A i \in Steps : \A j \in Steps :
        /\ i < j
        /\ MovesForward(i)
        /\ MovesForward(j)
        /\ AheadX(i) = AheadX(j)
        /\ AheadY(i) = AheadY(j)
        => Post(j).stars = Pre(j).stars

\* the robot collects a star, leaves the tile and enters it again
C7_Witness ==
    \E i \in Steps : \E j \in Steps :
        /\ i < j
        /\ MovesForward(i)
        /\ HeldStar(AheadTile(i))
        /\ MovesForward(j)
        /\ AheadX(i) = AheadX(j)
        /\ AheadY(i) = AheadY(j)
        /\ Post(j).stars > 0

CollectingMoves == {i \in Steps : MovesForward(i) /\ HeldStar(AheadTile(i))}

(***************************************************************************)
(* C8: the star count changes only in a Forward that enters a star tile:   *)
(* it is the level's star count minus the number of such moves, and a step *)
(* that is no forward move (turn, paint, call, no-op, failed guard) leaves *)
(* the star of the tile under the robot where it is.                       *)
(***************************************************************************)
C8_StarsOnlyByMoving ==
    /\ state.stars = levelData.stars - Cardinality(CollectingMoves)
    /\ \A i \in Steps :
        /\ Post(i).stars # Pre(i).stars => i \in CollectingMoves
        /\ ~MovesForward(i) =>
              (HeldStar(Post(i).board[Pre(i).y][Pre(i).x])
                  <=> HeldStar(Pre(i).board[Pre(i).y][Pre(i).x]))

\* standing on a star tile, the robot has turned, painted, called a
\* function, or had a guard fail, and no star has been collected
C8_OnStar(i) == HeldStar(Pre(i).board[Pre(i).y][Pre(i).x])

C8_Witness ==
    /\ Len(hist) >= 2
    /\ state.stars = levelData.stars
    /\ HeldStar(state.board[state.y][state.x])
    /\ \A i \in Steps : C8_OnStar(i)
    /\ \/ Executes(1, 2) /\ Executes(2, 7)
       \/ Executes(1, 4) /\ ~GuardPasses(2)

PaintColour(i) == OpOf(i) - 3

Paints(i) == OpOf(i) \in {4, 5, 6} /\ GuardPasses(i)

(***************************************************************************)
(* C9: PaintK sets the colour of the tile under the robot to K and keeps   *)
(* its star flag; the other tiles, pose and star count are unchanged, and  *)
(* painting a tile that already has colour K changes nothing.              *)
(***************************************************************************)
C9_PaintKeepsStar ==
    \A i \in Steps :
        Paints(i) =>
            LET before == Pre(i).board[Pre(i).y][Pre(i).x]
                after == Post(i).board[Pre(i).y][Pre(i).x]
            IN  /\ PopsOne(i)
                /\ Post(i).x = Pre(i).x
                /\ Post(i).y = Pre(i).y
                /\ Post(i).dir = Pre(i).dir
                /\ Post(i).stars = Pre(i).stars
                /\ after % 4 = PaintColour(i)
                /\ after \in 1..7
                /\ HeldStar(after) <=> HeldStar(before)
                /\ Post(i).board = [Pre(i).board EXCEPT ![Pre(i).y][Pre(i).x] = after]
                /\ (i > 1 /\ Paints(i - 1) /\ PaintColour(i - 1) = PaintColour(i))
                      => SameWorld(Pre(i), Post(i))

\* the same colour painted twice in a row on a star tile of another colour
C9_Witness ==
    \E i \in Steps :
        /\ i > 1
        /\ Paints(i - 1)
        /\ Paints(i)
        /\ PaintColour(i - 1) = PaintColour(i)
        /\ HeldStar(Pre(i - 1).board[Pre(i - 1).y][Pre(i - 1).x])
        /\ ColourUnder(i - 1) # PaintColour(i)

LeftTurns(i, j) == Cardinality({k \in i..j : Executes(k, 2)})

RightTurns(i, j) == Cardinality({k \in i..j : Executes(k, 3)})

HeadIsTurn ==
    /\ Len(state.stack) > 0
    /\ Head(state.stack) % 100 \in {2, 3}
    /\ ~HeadGuardFails

(***************************************************************************)
(* C10: TurnLeft and TurnRight change only the direction, by -1 and +1     *)
(* modulo 4, and never end the run; the direction stays in 0..3; a left    *)
(* and a right turn, or four equal turns, executed with no other turn in   *)
(* between, restore the direction.                                         *)
(***************************************************************************)
C10_Turns ==
    /\ [](state.dir \in 0..3)
    /\ [](\A i \in Steps :
            /\ Executes(i, 2) \/ Executes(i, 3) =>
                /\ PopsOne(i)
                /\ Post(i).x = Pre(i).x
                /\ Post(i).y = Pre(i).y
                /\ Post(i).stars = Pre(i).stars
                /\ Post(i).board = Pre(i).board
            /\ Executes(i, 2) => Pre(i).dir = (Post(i).dir + 1) % 4
            /\ Executes(i, 3) => Post(i).dir = (Pre(i).dir + 1) % 4)
    /\ [](\A i \in Steps : \A j \in i..Len(hist) :
            \/ LeftTurns(i, j) = 1 /\ RightTurns(i, j) = 1
            \/ LeftTurns(i, j) = 4 /\ RightTurns(i, j) = 0
            \/ LeftTurns(i, j) = 0 /\ RightTurns(i, j) = 4
            => Post(j).dir = Pre(i).dir)
    /\ [][hist' # hist /\ HeadIsTurn => ~Finished']_vars

\* four left turns in a row
C10_Witness ==
    \E i \in Steps :
        /\ i + 3 <= Len(hist)
        /\ \A k \in i..(i + 3) : Executes(k, 2)
        /\ Post(i + 3).dir = Pre(i).dir
        /\ Post(i).dir # Pre(i).dir

\* a left turn directly followed by a right turn
C10_LeftRightReached ==
    \E i \in Steps :
        /\ i < Len(hist)
        /\ Executes(i, 2)
        /\ Executes(i + 1, 3)

(***************************************************************************)
(* C11: executed a second time with the same level, program and step cap,  *)
(* on the same interpreter object, the VM ends with the same outcome       *)
(* (solved or not, and the whole returned object) and the same step count  *)
(* as the first time: nothing the first execution left behind (the state   *)
(* cache, the level, the program) reaches the second.                      *)
(***************************************************************************)
C11_Deterministic == run = 2 /\ Finished => Outcome = first

\* a second execution that ran into a loop again, after taking steps
C11_Witness ==
    /\ run = 2
    /\ vm = "final"
    /\ result = LoopDetected
    /\ first.result = LoopDetected
    /\ Len(hist) > 0

\* a second execution by Solver.executeProgram that is Solved again, each
\* having collected the level's stars on its own board
C11_SolvedAgain ==
    /\ run = 2
    /\ vm = "solver"
    /\ Solved
    /\ first.solved
    /\ state.board # levelData.board
    /\ Cardinality(CollectingMoves) = 2

(***************************************************************************)
(* C12: a VM run never writes to its inputs.  The board and the stack of   *)
(* the run are arrays of its own, and no step changes the level (board,    *)
(* start pose, star count) or any function of the program, whatever the    *)
(* outcome; painting and star pickup change the run's board only.          *)
(***************************************************************************)
C12_InputsUntouched ==
    /\ [](state.boardOf = Own /\ state.stackOf = Own)
    /\ [][levelData' = levelData /\ programFunctions' = programFunctions]_vars

\* a finished run that painted a tile, collected a star and consumed its
\* stack, while the level's board and the program's first function are whole
C12_Witness ==
    /\ Finished
    /\ \E i \in Steps : Paints(i) /\ ColourUnder(i) # PaintColour(i)
    /\ CollectingMoves # {}
    /\ state.board # levelData.board
    /\ state.stack = <<>>
    /\ Len(programFunctions[1]) = 2

\* the function slot called by an instruction is missing or empty
NothingToCall(instr) ==
    LET slot == (instr % 100) - 7 + 1
    IN  \/ slot \notin DOMAIN programFunctions
        \/ Len(programFunctions[slot]) = 0

\* step i executed a call of a function that is empty or not defined
CallsNothing(i) ==
    /\ OpOf(i) \in {7, 8, 9}
    /\ GuardPasses(i)
    /\ NothingToCall(hist[i].instr)

HeadCallsNothing ==
    /\ Len(state.stack) > 0
    /\ Head(state.stack) % 100 \in {7, 8, 9}
    /\ ~HeadGuardFails
    /\ NothingToCall(Head(state.stack))

(***************************************************************************)
(* C13: a call of a function that is empty, or that the program does not   *)
(* define, pops that one instruction and counts one step; the rest of the  *)
(* stack, the pose, the stars and the board are unchanged, the run does    *)
(* not end by it, and the instruction behind it is the next one popped.    *)
(* (GameEngine.callFunction fails the run when the function is not         *)
(* defined: this statement does not hold of GameEngine.step.)              *)
(***************************************************************************)
C13_CallOfNothingIsNoOp ==
    /\ [](\A i \in Steps :
            CallsNothing(i) =>
                /\ PopsOne(i)
                /\ SameWorld(Pre(i), Post(i))
                /\ i < Len(hist) => hist[i + 1].instr = Pre(i).stack[2])
    /\ [][hist' # hist /\ HeadCallsNothing => ~Finished']_vars

\* GameEngine.step has failed the run in a call of a function the program
\* does not define, with instructions left on the stack
C13_Witness ==
    /\ vm = "engine"
    /\ Failed
    /\ Len(hist) > 0
    /\ CallsNothing(Len(hist))
    /\ (OpOf(Len(hist)) - 7 + 1) \notin DOMAIN programFunctions
    /\ Len(state.stack) > 0
    /\ Len(state.stack) <= StackLimit

\* the same call in Solver.executeProgram, followed by a forward move
C13_SolverGoesOn ==
    /\ vm = "solver"
    /\ \E i \in Steps :
        /\ CallsNothing(i)
        /\ (OpOf(i) - 7 + 1) \notin DOMAIN programFunctions
        /\ i < Len(hist)
        /\ MovesForward(i + 1)

\* a call of an empty function in GameEngine.step, followed by a forward move
C13_EmptyGoesOn ==
    /\ vm = "engine"
    /\ \E i \in Steps :
        /\ CallsNothing(i)
        /\ (OpOf(i) - 7 + 1) \in DOMAIN programFunctions
        /\ i < Len(hist)
        /\ MovesForward(i + 1)

\* the top of a step with stars remaining: no outcome yet, a stack that
\* is not empty, and the step cap not reached
TopOfStep ==
    /\ ~Finished
    /\ state.stars > 0
    /\ Len(state.stack) > 0
    /\ state.steps < maxSteps

(***************************************************************************)
(* C14: at the top of a step with stars remaining, a stack of more than    *)
(* 100 instructions ends the run as a failure with nothing popped, and     *)
(* only such a stack does: with 100 instructions or fewer the head of the  *)
(* stack is popped and executed.  Either step can always be taken.         *)
(***************************************************************************)
C14_OverflowAbove100 ==
    /\ [](TopOfStep => ENABLED Next)
    /\ [][TopOfStep /\ Len(state.stack) > 100
             => Failed' /\ state' = state /\ hist' = hist]_vars
    /\ [][TopOfStep /\ Len(state.stack) <= 100
             => /\ hist' = Append(hist, [instr |-> Head(state.stack), pre |-> state])
                /\ state'.steps = state.steps + 1]_vars

\* a run that executed an instruction on a stack of exactly 100 and failed
\* at the top of the next step, on a stack of 103
C14_Witness ==
    /\ Failed
    /\ Len(hist) > 0
    /\ Len(Pre(Len(hist)).stack) = 100
    /\ Len(state.stack) = 103
    /\ state.steps < maxSteps

\* a run that failed on a stack of 101
C14_JustAbove ==
    /\ Failed
    /\ Len(state.stack) = 101
    /\ state.steps < maxSteps

\* the step cap is reached with stars remaining and nothing returned yet
AtCapWithStars ==
    /\ ~result.returned
    /\ state.steps = maxSteps
    /\ state.stars > 0

(***************************************************************************)
(* C15: every run of executeProgram returns.  The step counter is the      *)
(* number of instructions popped so far (failed guards, calls and no-ops   *)
(* included) and grows by one with each; it never passes the step cap, no  *)
(* instruction is popped once it equals the cap, and a run that reaches    *)
(* the cap with stars remaining returns a failure.                         *)
(***************************************************************************)
C15_Terminates ==
    /\ <>result.returned
    /\ [](state.steps = Len(hist) /\ state.steps <= maxSteps)
    /\ [][hist' # hist =>
            /\ Len(hist') = Len(hist) + 1
            /\ state'.steps = state.steps + 1
            /\ state.steps < maxSteps]_vars
    /\ [][AtCapWithStars => Failed' /\ state' = state]_vars

\* a run cut off by the step cap: failed with stars remaining and
\* instructions left on the stack, after a forward move and a call
C15_Witness ==
    /\ Failed
    /\ state.steps = maxSteps
    /\ state.stars > 0
    /\ Len(state.stack) > 0
    /\ \E i \in Steps : MovesForward(i)
    /\ \E i \in Steps : IsDefinedCall(i)

\* a run that ended at the step cap after a failed guard
C15_GuardCounted ==
    /\ Finished
    /\ state.steps = maxSteps
    /\ ~GuardPasses(Len(hist))

TurnLeftCall0 == << <<2, 7>> >>

\* F0 = [TurnLeft, Call0] run with loop detection on a level with a star,
\* under a step cap above 8
C16_Case ==
    /\ vm = "final"
    /\ programFunctions = TurnLeftCall0
    /\ levelData.stars >= 1
    /\ maxSteps > 8

(***************************************************************************)
(* C16: with loop detection, the program F0 = [TurnLeft, Call0] on a level *)
(* with at least one star is classified as a loop (solved: false with      *)
(* loopDetected) from every start position and direction: the run never    *)
(* takes more than 8 steps, it returns, and what it returns is the loop    *)
(* verdict, reached at the top of the ninth step.                          *)
(***************************************************************************)
C16_LoopWithin8 ==
    /\ [](C16_Case =>
            /\ Len(hist) <= 8
            /\ state.steps = Len(hist)
            /\ result.returned => result = LoopDetected /\ Len(hist) = 8)
    /\ (C16_Case => <>(result = LoopDetected))

\* the verdict under the default step cap of 1000, from the far corner
C16_Witness ==
    /\ C16_Case
    /\ maxSteps = 1000
    /\ levelData.player.x = 15
    /\ levelData.player.y = 15
    /\ levelData.player.direction = 3
    /\ result = LoopDetected
    /\ state.steps = 8
    /\ state.dir = 3

(***************************************************************************)
(* The synthesis engines: ConstraintSolver.solve and FinalSolver.solve.    *)
(* Both search by iterative deepening on the total number of instructions  *)
(* of a program, generate the programs of one total depth-first, function  *)
(* by function, and run each program on their own copy of the VM.          *)
(***************************************************************************)
\* the step cap of the runs the engines make, 10000 and 1000 in the code
SearchSteps == 8

\* the timeout handed to solve(), in clock ticks
TimeoutMs == 1

\* the largest elapsed time the model follows
MaxElapsed == 2

\* `levelData.functions || [{ length: 12 }]`
DefaultLength == 12

\* FinalSolver.solve: Math.min(..., 10)
FinalMaxTotal == 10

Min(a, b) == IF a < b THEN a ELSE b

RECURSIVE sum(_)
sum(seq) == IF seq = <<>> THEN 0 ELSE Head(seq) + sum(Tail(seq))

functionLengths(level) ==
    IF "functions" \in DOMAIN level
    THEN [i \in DOMAIN level.functions |-> level.functions[i].length]
    ELSE <<DefaultLength>>

\* [...new Set(result)]: the first occurrence of every element, in order
RECURSIVE unique(_)
unique(seq) ==
    IF seq = <<>>
    THEN <<>>
    ELSE LET init == unique(SubSeq(seq, 1, Len(seq) - 1))
             last == seq[Len(seq)]
         IN  IF last \in Range(init) THEN init ELSE Append(init, last)

\* ConstraintSolver.buildInstructions from the i-th name on: an opcode name
\* gives its opcode, a condition name gives its combination with every
\* opcode name of the list
RECURSIVE interleaved(_, _)
interleaved(activeInstructions, i) ==
    IF i > Len(activeInstructions)
    THEN <<>>
    ELSE LET name == activeInstructions[i]
             opnames == SelectSeq(activeInstructions, IsOpcodeName)
         IN  (IF IsOpcodeName(name)
              THEN <<INST[name]>>
              ELSE IF IsCondName(name)
              THEN [k \in 1..Len(opnames) |-> COND[name] * 100 + INST[opnames[k]]]
              ELSE <<>>) \o interleaved(activeInstructions, i + 1)

\* buildInstructions of the two engines: FinalSolver puts the unconditional
\* instructions first, as Solver.buildInstructionSet does
buildInstructions(solver, activeInstructions) ==
    IF solver = "constraint"
    THEN unique(interleaved(activeInstructions, 1))
    ELSE unique(buildInstructionSet(activeInstructions))

IsCall(opcode) == opcode \in {INST.F0, INST.F1, INST.F2}

IsAnyCall(instr) == IsCall(decodeOpcode(instr))

IsUnconditionalCall(instr) == decodeCond(instr) = 0 /\ IsCall(decodeOpcode(instr))

(***************************************************************************)
(* The engines' copies of the VM, as functions of their arguments.         *)
(***************************************************************************)
\* a call: only a function that is defined and not empty is prepended
callOf(program, st, funcIndex) ==
    IF (funcIndex + 1) \in DOMAIN program /\ Len(program[funcIndex + 1]) > 0
    THEN [st EXCEPT !.stack = prepend(program[funcIndex + 1], st.stack),
                    !.stackOf = Own]
    ELSE st

opcodeOf(program, st, opcode) ==
    IF IsCall(opcode)
    THEN callOf(program, st, opcode - INST.F0)
    ELSE solverOpcode(st, opcode)

\* ConstraintSolver.executeProgram's loop from the state st on
RECURSIVE executeProgram(_, _, _)
executeProgram(program, cap, st) ==
    IF ~(st.steps < cap /\ Len(st.stack) > 0)
    THEN afterLoop(st)
    ELSE IF st.stars = 0
    THEN [returned |-> TRUE, solved |-> TRUE, steps |-> st.steps]
    ELSE IF stackOverflow(st)
    THEN [returned |-> TRUE, solved |-> FALSE]
    ELSE LET instr == Head(st.stack)
             opcode == decodeOpcode(instr)
             popped == pop(st)
         IN  IF guardFails(popped, instr)
             THEN executeProgram(program, cap, guardFailed(popped))
             ELSE IF opcode = INST.FW /\ forwardDies(popped)
             THEN [returned |-> TRUE, solved |-> FALSE]
             ELSE executeProgram(program, cap, opcodeOf(program, popped, opcode))

\* FinalSolver.executeWithLoopDetection's loop from the state st on, with
\* the state keys seen so far
RECURSIVE executeWithLoopDetection(_, _, _, _)
executeWithLoopDetection(program, cap, st, cache) ==
    IF ~(st.steps < cap /\ Len(st.stack) > 0 /\ Len(st.stack) <= StackLimit)
    THEN afterLoop(st)
    ELSE IF st.stars = 0
    THEN [returned |-> TRUE, solved |-> TRUE, steps |-> st.steps]
    ELSE IF hashState(st) \in cache
    THEN LoopDetected
    ELSE LET instr == Head(st.stack)
             opcode == decodeOpcode(instr)
             popped == pop(st)
             seen == cache \cup {hashState(st)}
         IN  IF guardFails(popped, instr)
             THEN executeWithLoopDetection(program, cap, guardFailed(popped), seen)
             ELSE IF opcode = INST.FW /\ forwardDies(popped)
             THEN [returned |-> TRUE, solved |-> FALSE]
             ELSE executeWithLoopDetection(program, cap,
                                           opcodeOf(program, popped, opcode), seen)

\* the run an engine makes of a candidate program
execute(solver, level, program) ==
    IF solver = "constraint"
    THEN executeProgram(program, SearchSteps, initialState(level, program))
    ELSE executeWithLoopDetection(program, SearchSteps,
                                  initialState(level, program), clearedCache({}))

(***************************************************************************)
(* ConstraintSolver's candidate generator.  The generator writes into one  *)
(* program array, which tryBuildProgram creates and fillFunction updates   *)
(* in place: the operators below take the array and give it back with the  *)
(* programs that were handed to the VM (out), in the order of the handing. *)
(***************************************************************************)
\* the functions by length, longest first, ties in index order
funcOrder(funcLengths) ==
    LET n == Len(funcLengths)
    IN  CHOOSE order \in [1..n -> 1..n] :
            \A i, j \in 1..n : i < j =>
                \/ funcLengths[order[i]] > funcLengths[order[j]]
                \/ /\ funcLengths[order[i]] = funcLengths[order[j]]
                   /\ order[i] < order[j]

\* the constraints fillFunction starts a function with
NoConstraints ==
    [leftTurns |-> 0, rightTurns |-> 0, lastPaint |-> Null, terminated |-> FALSE,
     noLeftTurn |-> FALSE, noRightTurn |-> FALSE]

propagateConstraints(constraints, instruction) ==
    LET opcode == decodeOpcode(instruction)
        called == [constraints EXCEPT !.terminated =
                      @ \/ IsUnconditionalCall(instruction)]
        painted == [called EXCEPT !.lastPaint =
                       CASE opcode = INST.P1 -> 1
                         [] opcode = INST.P2 -> 2
                         [] opcode = INST.P3 -> 3
                         [] OTHER -> @]
    IN  CASE opcode = INST.TL ->
                [painted EXCEPT !.leftTurns = @ + 1, !.rightTurns = 0,
                                !.noRightTurn = @ \/ painted.leftTurns + 1 >= 2]
          [] opcode = INST.TR ->
                [painted EXCEPT !.rightTurns = @ + 1, !.leftTurns = 0,
                                !.noLeftTurn = @ \/ painted.rightTurns + 1 >= 2]
          [] OTHER ->
                [painted EXCEPT !.leftTurns = 0, !.rightTurns = 0,
                                !.noLeftTurn = FALSE, !.noRightTurn = FALSE]

getValidInstructions(constraints, allInstructions) ==
    LET Allowed(i) ==
            /\ ~(constraints.noLeftTurn /\ decodeOpcode(i) = INST.TL)
            /\ ~(constraints.noRightTurn /\ decodeOpcode(i) = INST.TR)
    IN  IF constraints.terminated THEN <<>> ELSE SelectSeq(allInstructions, Allowed)

\* funcLengths.map(() => []): n empty functions
RECURSIVE emptyProgram(_)
emptyProgram(n) == IF n = 0 THEN <<>> ELSE Append(emptyProgram(n - 1), <<>>)

\* array[pos] = value, on an array of pos elements or more
setAt(array, pos, value) ==
    IF pos < Len(array)
    THEN [array EXCEPT ![pos + 1] = value]
    ELSE Append(array, value)

\* what a part of the generation gives: the programs tested, the array after
Generated(out, program) == [out |-> out, program |-> program]

RECURSIVE tryBuildSearch(_, _, _, _)
RECURSIVE tryBuildLengths(_, _, _, _, _)
RECURSIVE fillSearch(_, _, _, _, _, _, _)
RECURSIVE fillInstructions(_, _, _, _, _, _, _, _, _)

\* tryBuildProgram's search(funcIdx, usedTotal); funcIdx counts from 1 here
tryBuildSearch(ctx, funcIdx, usedTotal, program) ==
    IF funcIdx > Len(ctx.funcOrder)
    THEN Generated(IF usedTotal = ctx.targetTotal THEN <<program>> ELSE <<>>,
                   program)
    ELSE tryBuildLengths(ctx, funcIdx, usedTotal, program, 0)

\* its loop over the lengths of one function, from len on
tryBuildLengths(ctx, funcIdx, usedTotal, program, len) ==
    LET maxLen == Min(ctx.funcLengths[ctx.funcOrder[funcIdx]],
                      ctx.targetTotal - usedTotal)
    IN  IF len > maxLen
        THEN Generated(<<>>, program)
        ELSE LET filled ==
                     IF len = 0
                     THEN tryBuildSearch(ctx, funcIdx + 1, usedTotal, program)
                     ELSE fillSearch(ctx, funcIdx, usedTotal, program, len, 0,
                                     NoConstraints)
                 rest == tryBuildLengths(ctx, funcIdx, usedTotal, filled.program,
                                         len + 1)
             IN  Generated(filled.out \o rest.out, rest.program)

\* fillFunction's search(pos, constraints)
fillSearch(ctx, funcIdx, usedTotal, program, len, pos, constraints) ==
    IF pos >= len
    THEN tryBuildSearch(ctx, funcIdx + 1, usedTotal + len, program)
    ELSE fillInstructions(ctx, funcIdx, usedTotal, program, len, pos, constraints,
                          getValidInstructions(constraints, ctx.instructions), 1)

\* its loop over the allowed instructions, from the j-th on
fillInstructions(ctx, funcIdx, usedTotal, program, len, pos, constraints, allowed, j) ==
    IF j > Len(allowed)
    THEN Generated(<<>>, program)
    ELSE LET realIdx == ctx.funcOrder[funcIdx]
             placed == [program EXCEPT
                           ![realIdx] = setAt(@, pos, allowed[j])]
             deeper == fillSearch(ctx, funcIdx, usedTotal, placed, len, pos + 1,
                                  propagateConstraints(constraints, allowed[j]))
             erased == [deeper.program EXCEPT ![realIdx] = setAt(@, pos, Null)]
             rest == fillInstructions(ctx, funcIdx, usedTotal, erased, len, pos,
                                      constraints, allowed, j + 1)
         IN  Generated(deeper.out \o rest.out, rest.program)

\* the programs tryBuildProgram hands to the VM for one total, in order
tryBuildProgram(instructions, funcLengths, targetTotal) ==
    tryBuildSearch([instructions |-> instructions, funcLengths |-> funcLengths,
                    funcOrder |-> funcOrder(funcLengths),
                    targetTotal |-> targetTotal],
                   1, 0, emptyProgram(Len(funcLengths))).out

(***************************************************************************)
(* FinalSolver's candidate generator.  fillFunction empties the function   *)
(* it fills before and after, so the array holds the instructions placed   *)
(* on the way to a test and nothing else.                                  *)
(***************************************************************************)
priority(opcode) ==
    CASE opcode = INST.FW -> 10
      [] opcode \in {INST.TL, INST.TR} -> 8
      [] opcode \in {INST.F0, INST.F1} -> 6
      [] opcode \in {INST.P1, INST.P2, INST.P3} -> 3
      [] OTHER -> 0

\* the priorities, highest first
Priorities == <<10, 8, 6, 3, 0>>

\* at position 0 a stable sort by falling priority, elsewhere the given order
orderInstructions(instructions, pos) ==
    LET class(k) ==
            LET Has(i) == priority(decodeOpcode(i)) = Priorities[k]
            IN  SelectSeq(instructions, Has)
    IN  IF pos = 0
        THEN class(1) \o class(2) \o class(3) \o class(4) \o class(5)
        ELSE instructions

isValidBehindCall(sequence, pos) ==
    pos = 0 \/ ~IsUnconditionalCall(sequence[pos])

\* sequence[pos] may follow sequence[pos - 1] and sequence[pos - 2]
\* (positions count from 0, as in the code)
isValidSequence(sequence, pos) ==
    \/ pos = 0
    \/ LET prevOp == decodeOpcode(sequence[pos])
           currOp == decodeOpcode(sequence[pos + 1])
       IN  /\ ~IsUnconditionalCall(sequence[pos])
           /\ \/ pos < 2
              \/ LET prev2Op == decodeOpcode(sequence[pos - 1])
                 IN  /\ ~(prev2Op = INST.TL /\ prevOp = INST.TL /\ currOp = INST.TR)
                     /\ ~(prev2Op = INST.TR /\ prevOp = INST.TR /\ currOp = INST.TL)

RECURSIVE depthSearch(_, _, _, _)
RECURSIVE depthLengths(_, _, _, _, _)
RECURSIVE fillPositions(_, _, _, _, _, _)
RECURSIVE fillOrdered(_, _, _, _, _, _, _, _)

\* searchDepth's search(funcIdx, usedTotal); funcIdx counts from 1 here
depthSearch(ctx, funcIdx, usedTotal, program) ==
    IF funcIdx > Len(ctx.funcLengths)
    THEN IF usedTotal = ctx.targetTotal THEN <<program>> ELSE <<>>
    ELSE depthLengths(ctx, funcIdx, usedTotal, program, 0)

\* its loop over the lengths of one function, from len on
depthLengths(ctx, funcIdx, usedTotal, program, len) ==
    IF len > Min(ctx.funcLengths[funcIdx], ctx.targetTotal - usedTotal)
    THEN <<>>
    ELSE (IF len = 0
          THEN depthSearch(ctx, funcIdx + 1, usedTotal, program)
          ELSE fillPositions(ctx, funcIdx, usedTotal,
                             [program EXCEPT ![funcIdx] = <<>>], len, 0))
            \o depthLengths(ctx, funcIdx, usedTotal, program, len + 1)

\* fillFunction's search(pos)
fillPositions(ctx, funcIdx, usedTotal, program, len, pos) ==
    IF pos >= len
    THEN depthSearch(ctx, funcIdx + 1, usedTotal + len, program)
    ELSE fillOrdered(ctx, funcIdx, usedTotal, program, len, pos,
                     orderInstructions(ctx.instructions, pos), 1)

\* its loop over the ordered instructions, from the j-th on
fillOrdered(ctx, funcIdx, usedTotal, program, len, pos, orderedInstr, j) ==
    IF j > Len(orderedInstr)
    THEN <<>>
    ELSE LET placed == [program EXCEPT ![funcIdx] = setAt(@, pos, orderedInstr[j])]
         IN  (IF isValidSequence(placed[funcIdx], pos)
              THEN fillPositions(ctx, funcIdx, usedTotal, placed, len, pos + 1)
              ELSE <<>>)
                \o fillOrdered(ctx, funcIdx, usedTotal, program, len, pos,
                               orderedInstr, j + 1)

\* the programs searchDepth hands to the VM for one total, in order
searchDepth(instructions, funcLengths, targetTotal) ==
    depthSearch([instructions |-> instructions, funcLengths |-> funcLengths,
                 targetTotal |-> targetTotal],
                1, 0, emptyProgram(Len(funcLengths)))

(***************************************************************************)
(* The levels the engines are run on.                                      *)
(***************************************************************************)
\* a staircase: the star is reached by turn left, forward, turn left,
\* forward; function 0 has b0 slots, function 1 has two
StairLevel(b0) ==
    [board |-> BoardWith(<<3, 2>> :> 1 @@ <<2, 2>> :> 1 @@ <<2, 3>> :> 5),
     player |-> [x |-> 3, y |-> 2, direction |-> 1],
     stars |-> 1,
     activeInstructions |-> <<"FW", "TL", "F1">>,
     functions |-> <<[length |-> b0], [length |-> 2]>>]

\* a level that cannot be solved: the robot can only turn; the level names
\* no functions, so the engines give it one function of DefaultLength slots
TurnLevel ==
    [board |-> BoardWith(<<8, 8>> :> 1 @@ <<0, 0>> :> 5),
     player |-> [x |-> 8, y |-> 8, direction |-> 0],
     stars |-> 1,
     activeInstructions |-> <<"TL">>]

\* level 1's corridor with an empty list of functions
NoSlotLevel == [Corridor(1) EXCEPT !.functions = <<>>]

SearchLevels ==
    {StairLevel(2), StairLevel(3), TurnLevel, NoSlotLevel, CallLevel}
        \cup {Corridor(n) : n \in 1..3}

(***************************************************************************)
(* solve().  The record `search` holds the engine and its argument         *)
(* onProgress (given or not), the locals of solve (totalInstr, tested),    *)
(* this.running, the time elapsed since startTime, the programs the        *)
(* generation of the current total has still to hand to the callback       *)
(* (queue), the position in the code (pc) and the object returned          *)
(* (answer).  The field refused tells that the callback has refused a        *)
(* program; it is written, never read, by the engines.                     *)
(***************************************************************************)
vmVars == <<vm, levelData, programFunctions, maxSteps, state, status, result, hist,
            stateCache, run, first>>

InitSearch ==
    /\ levelData \in SearchLevels
    /\ vm = "none"
    /\ programFunctions = <<>>
    /\ maxSteps = SearchSteps
    /\ state = initialState(levelData, programFunctions)
    /\ status = "ready"
    /\ result = NoResult
    /\ hist = <<>>
    /\ stateCache = {}
    /\ run = 1
    /\ first = NoResult
    /\ solverObject = Idle
    /\ calc = Idle
    /\ \E solver \in {"constraint", "final"}, onProgress \in BOOLEAN :
          search = [pc |-> "head", solver |-> solver, onProgress |-> onProgress,
                    totalInstr |-> 1, queue |-> <<>>, tested |-> 0, refused |-> FALSE,
                    running |-> TRUE, elapsed |-> 0, answer |-> NoResult]

\* the bound of the loop over totalInstr
maxTotal(solver, level) ==
    IF solver = "final"
    THEN Min(sum(functionLengths(level)), FinalMaxTotal)
    ELSE sum(functionLengths(level))

\* the programs the generation of one total hands to the callback, in order
candidates(solver, level, targetTotal) ==
    IF solver = "constraint"
    THEN tryBuildProgram(buildInstructions(solver, level.activeInstructions),
                         functionLengths(level), targetTotal)
    ELSE searchDepth(buildInstructions(solver, level.activeInstructions),
                     functionLengths(level), targetTotal)

NoSolution(tested) == [returned |-> TRUE, solved |-> FALSE, tested |-> tested]

Cancelled(tested) ==
    [returned |-> TRUE, solved |-> FALSE, tested |-> tested, cancelled |-> TRUE]

TimedOut(tested) ==
    [returned |-> TRUE, solved |-> FALSE, tested |-> tested, timeout |-> TRUE]

SolutionAfterStep(solver, program, steps, totalInstr, tested) ==
    [returned |-> TRUE, solved |-> TRUE, program |-> program, steps |-> steps + 1,
     instrCount |-> totalInstr, tested |-> tested]

\* the object solve returns for a program the VM solved the level with
Solution(solver, program, steps, totalInstr, tested) ==
    IF solver = "constraint"
    THEN [returned |-> TRUE, solved |-> TRUE, program |-> program, steps |-> steps,
          tested |-> tested]
    ELSE [returned |-> TRUE, solved |-> TRUE, program |-> program, steps |-> steps,
          instrCount |-> totalInstr, tested |-> tested]

\* the callback's answer: the deadline has not come and, for FinalSolver,
\* the engine has not been stopped
callbackAccepts(s) ==
    /\ s.elapsed < TimeoutMs
    /\ s.solver = "final" => s.running

\* the head of the loop over totalInstr, up to the await
LoopHead ==
    /\ search.pc = "head"
    /\ search' =
          IF search.totalInstr > maxTotal(search.solver, levelData)
          THEN [search EXCEPT !.pc = "done", !.answer = NoSolution(search.tested)]
          ELSE IF ~search.running
          THEN [search EXCEPT !.pc = "done", !.answer = Cancelled(search.tested)]
          ELSE IF search.elapsed > TimeoutMs
          THEN [search EXCEPT !.pc = "done", !.answer = TimedOut(search.tested)]
          ELSE IF search.onProgress
          THEN [search EXCEPT !.pc = "yield"]
          ELSE [search EXCEPT !.pc = "depth",
                              !.queue = candidates(search.solver, levelData,
                                                   search.totalInstr)]
    /\ UNCHANGED <<vmVars, solverObject, calc>>

\* solve goes on after the await
Resume ==
    /\ search.pc = "yield"
    /\ search' = [search EXCEPT !.pc = "depth",
                                !.queue = candidates(search.solver, levelData,
                                                     search.totalInstr)]
    /\ UNCHANGED <<vmVars, solverObject, calc>>

\* stop(), called while solve awaits
Stop ==
    /\ search.pc = "yield"
    /\ search.running
    /\ search' = [search EXCEPT !.running = FALSE]
    /\ UNCHANGED <<vmVars, solverObject, calc>>

\* time passes
Tick ==
    /\ search.pc \in {"head", "yield", "depth"}
    /\ search.elapsed < MaxElapsed
    /\ search' = [search EXCEPT !.elapsed = @ + 1]
    /\ UNCHANGED <<vmVars, solverObject, calc>>

\* the generation reaches a program of the total and the callback accepts:
\* the program is run
Test ==
    /\ search.pc = "depth"
    /\ search.queue # <<>>
    /\ callbackAccepts(search)
    /\ LET program == Head(search.queue)
           tested == search.tested + 1
           outcome == execute(search.solver, levelData, program)
       IN  search' =
              IF outcome.solved
              THEN [search EXCEPT
                       !.pc = "done", !.tested = tested,
                       !.answer = Solution(search.solver, program, outcome.steps,
                                           search.totalInstr, tested)]
              ELSE [search EXCEPT
                       !.queue = Tail(@), !.tested = tested]
    /\ UNCHANGED <<vmVars, solverObject, calc>>

\* the callback refuses: the generation goes on to the end of the total
\* and the callback, which counts every program, refuses every one of them
Refuse ==
    /\ search.pc = "depth"
    /\ search.queue # <<>>
    /\ ~callbackAccepts(search)
    /\ search' = [search EXCEPT !.queue = <<>>, !.tested = @ + Len(search.queue),
                                !.refused = TRUE]
    /\ UNCHANGED <<vmVars, solverObject, calc>>

\* the generation of the total has returned without a solution
DepthDone ==
    /\ search.pc = "depth"
    /\ search.queue = <<>>
    /\ search' =
          IF search.solver = "constraint" /\ search.elapsed > TimeoutMs
          THEN [search EXCEPT !.pc = "done", !.answer = TimedOut(search.tested)]
          ELSE [search EXCEPT !.pc = "head", !.totalInstr = @ + 1]
    /\ UNCHANGED <<vmVars, solverObject, calc>>

NextSearch ==
    LoopHead \/ Resume \/ Stop \/ Tick \/ Test \/ Refuse \/ DepthDone

SpecSearch == InitSearch /\ [][NextSearch]_vars

(***************************************************************************)
(* Vocabulary of the properties of the engines.                            *)
(***************************************************************************)
\* the number of instructions of a function, of a program
RECURSIVE instructionsOf(_)
instructionsOf(seq) ==
    IF seq = <<>>
    THEN 0
    ELSE (IF Head(seq) = Null THEN 0 ELSE 1) + instructionsOf(Tail(seq))

RECURSIVE totalOf(_)
totalOf(program) ==
    IF program = <<>> THEN 0 ELSE instructionsOf(Head(program)) + totalOf(Tail(program))

\* the search space of a level: every function a sequence of the level's
\* instructions within the function's budget, one instruction at least
SearchSpace(solver, level) ==
    LET allowed == Range(buildInstructions(solver, level.activeInstructions))
        lengths == functionLengths(level)
        F(i) == SeqsUpTo(allowed, lengths[i])
        all == CASE Len(lengths) = 0 -> {<<>>}
                 [] Len(lengths) = 1 -> {<<f0>> : f0 \in F(1)}
                 [] Len(lengths) = 2 -> {<<f0, f1>> : f0 \in F(1), f1 \in F(2)}
                 [] Len(lengths) = 3 ->
                        {<<f0, f1, f2>> : f0 \in F(1), f1 \in F(2), f2 \in F(3)}
    IN  {program \in all : totalOf(program) >= 1}

\* the programs of the search space the engine's VM reports as solved
Solutions(solver, level) ==
    {program \in SearchSpace(solver, level) : execute(solver, level, program).solved}

Returned == search.pc = "done"

ReturnedSolution == Returned /\ search.answer.solved

\* solve returned the result that carries neither timeout nor cancelled
ReturnedNothingFound ==
    /\ Returned
    /\ search.answer = NoSolution(search.tested)

\* the deadline has not come and stop() has not been called
Undisturbed == search.elapsed < TimeoutMs /\ search.running

(***************************************************************************)
(* C17: the solution solve returns has a total number of instructions, all *)
(* functions together, that is at most the total of every program of the   *)
(* search space (functions within their budgets, the level's instructions) *)
(* that the VM reports as solved.                                          *)
(* (The generators drop every program with an instruction behind an        *)
(* unconditional call, so this does not hold of the engines.)              *)
(***************************************************************************)
C17_DepthMinimal ==
    ReturnedSolution =>
        \A program \in Solutions(search.solver, levelData) :
            totalOf(search.answer.program) <= totalOf(program)

\* F0 = [F1, F1], F1 = [TL, FW]: four instructions
TwiceLeftForward == <<<<INST.F1, INST.F1>>, <<INST.TL, INST.FW>>>>

\* the staircase with three slots for function 0: solve returned a solution
\* of five instructions, and the VM solves the level with four
C17_Witness ==
    /\ ReturnedSolution
    /\ Undisturbed
    /\ levelData = StairLevel(3)
    /\ totalOf(search.answer.program) = 5
    /\ TwiceLeftForward \in Solutions(search.solver, levelData)

\* where the search space holds no shorter solution, none is returned:
\* the corridors are solved with the fewest instructions
C17_CorridorMinimal ==
    /\ ReturnedSolution
    /\ levelData = Corridor(3)
    /\ totalOf(search.answer.program) = 2
    /\ \A program \in Solutions(search.solver, levelData) : totalOf(program) >= 2

(***************************************************************************)
(* C18: the engine searches the totals in ascending order from 1: it goes  *)
(* from a total to the next one only, and only when every program          *)
(* generated for the total has been handed over; every program it runs has *)
(* the total being searched, and no program is run after one that was      *)
(* generated and not run.  When solve reports that nothing was found, and  *)
(* neither the deadline nor stop() came, every total from 1 to the sum of  *)
(* the function budgets has been searched.                                 *)
(* (FinalSolver.solve stops at total 10: the last part does not hold of    *)
(* it for budgets above 10 in sum.)                                        *)
(***************************************************************************)
\* this step runs a program
RunsProgram ==
    /\ search.pc = "depth"
    /\ search.queue # <<>>
    /\ callbackAccepts(search)
    /\ search'.tested = search.tested + 1

C18_Ascending ==
    /\ search.totalInstr = 1
    /\ [][/\ search'.totalInstr # search.totalInstr =>
                /\ search'.totalInstr = search.totalInstr + 1
                /\ search.queue = <<>>
          /\ RunsProgram =>
                /\ totalOf(Head(search.queue)) = search.totalInstr
                /\ ~search.refused]_vars

AllTotalsSearched ==
    /\ search.totalInstr = sum(functionLengths(levelData)) + 1
    /\ ~search.refused

C18_AscendingAndExhaustive ==
    /\ C18_Ascending
    /\ [](ReturnedNothingFound /\ Undisturbed => AllTotalsSearched)

\* FinalSolver has reported that nothing was found on the level of twelve
\* slots, with every program of the totals 1 to 10 run and none of the
\* totals 11 and 12
C18_Witness ==
    /\ ReturnedNothingFound
    /\ Undisturbed
    /\ ~search.refused
    /\ search.solver = "final"
    /\ levelData = TurnLevel
    /\ search.tested = FinalMaxTotal
    /\ search.totalInstr = FinalMaxTotal + 1
    /\ sum(functionLengths(levelData)) = DefaultLength

\* ConstraintSolver has reported that nothing was found on the same level
\* after the totals 1 to 12
C18_ConstraintExhaustive ==
    /\ ReturnedNothingFound
    /\ Undisturbed
    /\ search.solver = "constraint"
    /\ levelData = TurnLevel
    /\ search.tested = DefaultLength
    /\ AllTotalsSearched

(***************************************************************************)
(* C19: the pruning rules of the generators (nothing behind an             *)
(* unconditional call, no left-left-right and no right-right-left turns)   *)
(* do not change the answer.  The search without the rules runs every      *)
(* program of the search space by rising total, so its answer is the       *)
(* least total of a solution, or that there is none; the engine, when      *)
(* neither the deadline nor stop() came, answers the same.                 *)
(* (A program with an instruction behind an unconditional call can be the  *)
(* only solution, or the only shortest one: this does not hold of the      *)
(* engines.)                                                               *)
(***************************************************************************)
\* the answer of the search over the whole search space, in one number:
\* the total of the solution, 0 for none
unprunedAnswer(solver, level) ==
    LET totals == {totalOf(program) : program \in Solutions(solver, level)}
    IN  IF totals = {}
        THEN 0
        ELSE CHOOSE t \in totals : \A u \in totals : t <= u

\* the answer solve returned
returnedAnswer ==
    IF search.answer.solved THEN totalOf(search.answer.program) ELSE 0

C19_PruningKeepsAnswer ==
    (ReturnedSolution \/ ReturnedNothingFound) /\ Undisturbed =>
        returnedAnswer = unprunedAnswer(search.solver, levelData)

\* both engines' rules reject the function [F1, F1]
RulesReject(function) ==
    /\ ~isValidSequence(function, Len(function) - 1)
    /\ getValidInstructions(
           propagateConstraints(NoConstraints, function[Len(function) - 1]),
           <<function[Len(function)]>>) = <<>>

\* the staircase with two slots for each function: the engine has searched
\* the totals 1 to 4 and reports that nothing was found, while the VM
\* solves the level with a program whose function 0 the rules reject
C19_Witness ==
    /\ ReturnedNothingFound
    /\ Undisturbed
    /\ ~search.refused
    /\ levelData = StairLevel(2)
    /\ search.totalInstr = 5
    /\ TwiceLeftForward \in Solutions(search.solver, levelData)
    /\ RulesReject(TwiceLeftForward[1])
    /\ unprunedAnswer(search.solver, levelData) = 4

\* on the other levels the two answers agree
C19_SameAnswerElsewhere ==
    /\ ReturnedSolution
    /\ Undisturbed
    /\ levelData = CallLevel
    /\ returnedAnswer = unprunedAnswer(search.solver, levelData)

(***************************************************************************)
(* C20: when the deadline or stop() has kept the engine from running a     *)
(* program it generated, solve does not return the result without a tag:   *)
(* that result is returned only when every total was searched and every    *)
(* generated program was run.  This includes a cutoff during the last      *)
(* total and a clock that stands at the timeout exactly.                   *)
(* (Neither engine checks after the last total what ended it:              *)
(* FinalSolver.solve has no check behind searchDepth, ConstraintSolver's   *)
(* check behind tryBuildProgram lets elapsed = timeoutMs pass.)            *)
(***************************************************************************)
C20_CutoffIsTagged ==
    ReturnedNothingFound =>
        /\ ~search.refused
        /\ search.totalInstr > maxTotal(search.solver, levelData)

\* FinalSolver: the deadline passed during the last total, programs of
\* that total were refused, and solve returned the result without a tag
C20_Witness ==
    /\ ReturnedNothingFound
    /\ search.solver = "final"
    /\ search.refused
    /\ search.running
    /\ search.elapsed > TimeoutMs

\* FinalSolver: stop() was called while solve awaited before the last total
C20_StoppedUntagged ==
    /\ ReturnedNothingFound
    /\ search.solver = "final"
    /\ search.refused
    /\ ~search.running
    /\ search.elapsed = 0

\* ConstraintSolver: the clock stood at the timeout exactly from the
\* refusal to the return
C20_AtDeadlineUntagged ==
    /\ ReturnedNothingFound
    /\ search.solver = "constraint"
    /\ search.refused
    /\ search.elapsed = TimeoutMs

\* a cutoff before the last total is reported with its tag
C20_TaggedEarlier ==
    /\ Returned
    /\ search.refused
    /\ search.answer \in {TimedOut(search.tested), Cancelled(search.tested)}
    /\ search.totalInstr < maxTotal(search.solver, levelData)

(***************************************************************************)
(* Functions under study.  A specification of this part takes the          *)
(* arguments of a function from a bounded set, keeps them in calc and      *)
(* applies the function in its actions; no interpreter and no search runs. *)
(***************************************************************************)
machineVars == <<vmVars, search, solverObject>>

NoMachine ==
    /\ vm = "none"
    /\ levelData = TurnLevel
    /\ programFunctions = <<>>
    /\ maxSteps = SearchSteps
    /\ state = initialState(levelData, programFunctions)
    /\ status = "ready"
    /\ result = NoResult
    /\ hist = <<>>
    /\ stateCache = {}
    /\ run = 1
    /\ first = NoResult
    /\ search = Idle
    /\ solverObject = Idle

(***************************************************************************)
(* The encoding of instructions.                                           *)
(***************************************************************************)
\* an encoding with the condition in the tens
encodeInTens(cond, opcode) == (IF cond = Null THEN 0 ELSE cond) * 10 + opcode

\* (cond || 0) * 100 + opcode: a null or absent condition counts as 0
encodeInstruction(cond, opcode) == (IF cond = Null THEN 0 ELSE cond) * 100 + opcode

decodeInstruction(instr) == [cond |-> decodeCond(instr), opcode |-> decodeOpcode(instr)]

\* the opcodes of INST, the conditions of COND with 0 (none) and null
Opcodes == {INST[name] : name \in DOMAIN INST}

Conditions == {0, Null} \cup {COND[name] : name \in DOMAIN COND}

\* two pairs (cond, opcode) are drawn; EncodeBoth encodes them, DecodeBoth
\* decodes the two codes
InitCodec ==
    /\ NoMachine
    /\ \E c1 \in Conditions, o1 \in Opcodes, c2 \in Conditions, o2 \in Opcodes :
          calc = [op |-> "codec",
                  pairs |-> <<[cond |-> c1, opcode |-> o1], [cond |-> c2, opcode |-> o2]>>,
                  codes |-> <<>>,
                  decoded |-> <<>>]

EncodeBoth ==
    /\ calc.codes = <<>>
    /\ calc' = [calc EXCEPT !.codes = <<encodeInstruction(calc.pairs[1].cond, calc.pairs[1].opcode),
                                        encodeInstruction(calc.pairs[2].cond, calc.pairs[2].opcode)>>]
    /\ UNCHANGED machineVars

DecodeBoth ==
    /\ calc.codes # <<>>
    /\ calc.decoded = <<>>
    /\ calc' = [calc EXCEPT !.decoded = <<decodeInstruction(calc.codes[1]),
                                          decodeInstruction(calc.codes[2])>>]
    /\ UNCHANGED machineVars

NextCodec == EncodeBoth \/ DecodeBoth

SpecCodec == InitCodec /\ [][NextCodec]_vars

\* the pair is one the encoding is defined for: a condition 0..3, an opcode 0..9
Encodable(pair) == pair.cond \in 0..3 /\ pair.opcode \in 0..9

\* C26: decoding the code of (c, o), c in 0..3 and o in 0..9, gives (c, o)
\* back; two distinct pairs have distinct codes; the code of an unconditional
\* instruction is its opcode
C26_RoundTrip ==
    /\ calc.codes # <<>> =>
          /\ \A i \in 1..2 :
                Encodable(calc.pairs[i]) /\ calc.pairs[i].cond = 0
                    => calc.codes[i] = calc.pairs[i].opcode
          /\ Encodable(calc.pairs[1]) /\ Encodable(calc.pairs[2])
                /\ calc.pairs[1] # calc.pairs[2]
                    => calc.codes[1] # calc.codes[2]
    /\ calc.decoded # <<>> =>
          \A i \in 1..2 : Encodable(calc.pairs[i]) => calc.decoded[i] = calc.pairs[i]

\* (C3, F2) and (0, FW) have been encoded and decoded
C26_Witness ==
    /\ calc.decoded # <<>>
    /\ calc.pairs = <<[cond |-> COND.C3, opcode |-> INST.F2], [cond |-> 0, opcode |-> INST.FW]>>
    /\ calc.codes = <<309, 1>>

(***************************************************************************)
(* generatePrograms(instructionSet, functionLengths, maxTotalInstructions) *)
(* of the command-line solvers: the programs in the order the generator    *)
(* yields them.  ctx holds the three arguments; funcIndex counts from 0.   *)
(***************************************************************************)
\* bounds of the arguments drawn
MaxBudget == 2
MaxFuncs == 2
MaxTotalArg == 3

\* functionLengths[funcIndex] whatever is left of the total
wholeBudget(ctx, funcIndex, totalUsed) == ctx.functionLengths[funcIndex + 1]

\* Math.min(functionLengths[funcIndex], maxTotalInstructions - totalUsed)
maxLen(ctx, funcIndex, totalUsed) == Min(ctx.functionLengths[funcIndex + 1], ctx.maxTotal - totalUsed)

\* result = [...rest]; result[funcIndex] = seq, for every rest in turn
RECURSIVE withFunction(_, _, _)
withFunction(rests, funcIndex, seq) ==
    IF rests = <<>>
    THEN <<>>
    ELSE <<setAt(Head(rests), funcIndex, seq)>> \o withFunction(Tail(rests), funcIndex, seq)

RECURSIVE genFunc(_, _, _)
RECURSIVE genLengths(_, _, _, _)
RECURSIVE genInstructions(_, _, _, _, _, _)
RECURSIVE genEach(_, _, _, _, _, _, _)

genFunc(ctx, funcIndex, totalUsed) ==
    IF funcIndex = Len(ctx.functionLengths)
    THEN IF totalUsed > 0 THEN <<emptyProgram(Len(ctx.functionLengths))>> ELSE <<>>
    ELSE genLengths(ctx, funcIndex, totalUsed, 0)

\* for (let len = 0; len <= maxLen; len++), from len on
genLengths(ctx, funcIndex, totalUsed, len) ==
    IF len > maxLen(ctx, funcIndex, totalUsed)
    THEN <<>>
    ELSE genInstructions(ctx, funcIndex, totalUsed, len, len, <<>>)
            \o genLengths(ctx, funcIndex, totalUsed, len + 1)

genInstructions(ctx, funcIndex, totalUsed, len, currentLen, seq) ==
    IF currentLen = 0
    THEN withFunction(genFunc(ctx, funcIndex + 1, totalUsed + len), funcIndex, seq)
    ELSE genEach(ctx, funcIndex, totalUsed, len, currentLen, seq, 1)

\* for (const instr of instructionSet), from the j-th instruction on
genEach(ctx, funcIndex, totalUsed, len, currentLen, seq, j) ==
    IF j > Len(ctx.instructionSet)
    THEN <<>>
    ELSE genInstructions(ctx, funcIndex, totalUsed, len, currentLen - 1, Append(seq, ctx.instructionSet[j]))
            \o genEach(ctx, funcIndex, totalUsed, len, currentLen, seq, j + 1)

generatePrograms(instructionSet, lengths, maxTotalInstructions) ==
    genFunc([instructionSet |-> instructionSet, functionLengths |-> lengths,
             maxTotal |-> maxTotalInstructions], 0, 0)

NoDuplicates(seq) == \A i, j \in DOMAIN seq : seq[i] = seq[j] => i = j

\* the instruction sets drawn: FW, F0 and TL in any order, none twice
InstructionSets == {s \in SeqsUpTo({INST.FW, INST.F0, INST.TL}, 2) : NoDuplicates(s)}

InitGenerate ==
    /\ NoMachine
    /\ \E instructionSet \in InstructionSets,
          lengths \in SeqsUpTo(0..MaxBudget, MaxFuncs),
          maxTotalInstructions \in 0..MaxTotalArg :
          calc = [op |-> "generatePrograms",
                  instructionSet |-> instructionSet,
                  functionLengths |-> lengths,
                  maxTotal |-> maxTotalInstructions,
                  done |-> FALSE,
                  programs |-> <<>>]

\* the generator is run to its end, the programs collected as they come
Generate ==
    /\ ~calc.done
    /\ calc' = [calc EXCEPT !.done = TRUE,
                            !.programs = generatePrograms(calc.instructionSet,
                                                          calc.functionLengths, calc.maxTotal)]
    /\ UNCHANGED machineVars

NextGenerate == Generate

SpecGenerate == InitGenerate /\ [][NextGenerate]_vars

\* one sequence over S per function, none longer than the function's budget
RECURSIVE ProgramsOver(_, _)
ProgramsOver(S, lengths) ==
    IF lengths = <<>>
    THEN {<<>>}
    ELSE {<<function>> \o others : function \in SeqsUpTo(S, Head(lengths)),
                                   others \in ProgramsOver(S, Tail(lengths))}

\* the programs of the description: one sequence over instructionSet per
\* function, none longer than its budget, 1..maxTotal instructions in all
ProgramsWithin(instructionSet, lengths, maxTotalInstructions) ==
    {p \in ProgramsOver(Range(instructionSet), lengths) : totalOf(p) \in 1..maxTotalInstructions}

\* C22: generatePrograms yields exactly the programs over instructionSet with
\* every function within its budget and 1..maxTotal instructions in all, each
\* once; for {FW, F0}, budget [2] and maxTotal 2 it yields [[FW, F0]]
C22_ExactlyOnce ==
    calc.done =>
        /\ Range(calc.programs)
              = ProgramsWithin(calc.instructionSet, calc.functionLengths, calc.maxTotal)
        /\ NoDuplicates(calc.programs)
        /\ (calc.instructionSet = <<INST.FW, INST.F0>> /\ calc.functionLengths = <<2>>
                /\ calc.maxTotal = 2)
              => <<<<INST.FW, INST.F0>>>> \in Range(calc.programs)

\* the generation for {FW, F0}, [2], 2 is done: its six programs
C22_Witness ==
    /\ calc.done
    /\ calc.instructionSet = <<INST.FW, INST.F0>>
    /\ calc.functionLengths = <<2>>
    /\ calc.maxTotal = 2
    /\ Len(calc.programs) = 6

\* two functions and three instructions in all: both functions are used
C22_TwoFunctions ==
    /\ calc.done
    /\ calc.functionLengths = <<2, 1>>
    /\ calc.maxTotal = 3
    /\ <<<<INST.TL, INST.FW>>, <<INST.TL>>>> \in Range(calc.programs)

(***************************************************************************)
(* The stack machine with and without loop detection.                      *)
(* AdvancedSolver.executeProgram (final-solver.js:642-741) is the loop of  *)
(* ConstraintSolver.executeProgram word for word; both are the operator    *)
(* executeProgram.  A program and a level are drawn and run by both        *)
(* machines under the same cap.                                            *)
(***************************************************************************)
\* bound of the programs drawn: the left-right pairs a program begins with
MaxPairs == 3

\* the robot at (5, 7) facing dir, one star on the tile next to it in the
\* direction (dir + turn) % 4
Corner(dir, turn) ==
    [board |-> BoardWith(<<5, 7>> :> 1
                  @@ <<5 + dx[((dir + turn) % 4) + 1], 7 + dy[((dir + turn) % 4) + 1]>> :> 5),
     player |-> [x |-> 5, y |-> 7, direction |-> dir],
     stars |-> 1,
     activeInstructions |-> <<"FW", "TL", "TR", "F0">>,
     functions |-> <<[length |-> DefaultLength]>>]

RECURSIVE leftRight(_)
leftRight(k) == IF k = 0 THEN <<>> ELSE <<INST.TL, INST.TR>> \o leftRight(k - 1)

\* one function: k times left and right, then one of five endings
ComparedPrograms ==
    {<<leftRight(k) \o ending>> :
        k \in 0..MaxPairs,
        ending \in {<<INST.FW>>, <<INST.TL, INST.FW>>, <<INST.TR, INST.FW>>,
                    <<INST.FW, INST.F0>>, <<INST.F0>>}}

InitCompare ==
    /\ NoMachine
    /\ \E dir \in 0..3, turn \in {0, 1, 3}, program \in ComparedPrograms,
          cap \in {SmallCap, MaxSteps} :
          calc = [op |-> "compare",
                  level |-> Corner(dir, turn),
                  program |-> program,
                  cap |-> cap,
                  plain |-> NoResult,
                  detecting |-> NoResult]

\* this.executeProgram(levelData, program, maxSteps)
RunPlain ==
    /\ calc.op = "compare"
    /\ ~calc.plain.returned
    /\ calc' = [calc EXCEPT !.plain =
                   executeProgram(calc.program, calc.cap,
                                  initialState(calc.level, calc.program))]
    /\ UNCHANGED machineVars

\* this.executeWithLoopDetection(levelData, program, maxSteps)
RunDetecting ==
    /\ calc.op = "compare"
    /\ ~calc.detecting.returned
    /\ calc' = [calc EXCEPT !.detecting =
                   executeWithLoopDetection(calc.program, calc.cap,
                                            initialState(calc.level, calc.program),
                                            clearedCache({}))]
    /\ UNCHANGED machineVars

NextCompare == RunPlain \/ RunDetecting

SpecCompare == InitCompare /\ [][NextCompare]_vars

BothRan == calc.plain.returned /\ calc.detecting.returned

\* C27: a program the plain machine reports solved within the cap is
\* reported solved, with the same step count, by executeWithLoopDetection
\* under the same cap
C27_SolvedAlike ==
    BothRan /\ calc.plain.solved => calc.detecting = calc.plain

\* F0 = [TL, TR, TL, TR, TL, TR, TL, FW] with the star to the left: solved in
\* 8 steps by the plain machine, declared a loop by the other
C27_Witness ==
    /\ BothRan
    /\ calc.program = <<leftRight(3) \o <<INST.TL, INST.FW>>>>
    /\ calc.plain = [returned |-> TRUE, solved |-> TRUE, steps |-> 8]
    /\ calc.detecting = LoopDetected

\* with two pairs before the ending, both machines solve in 6 steps
C27_ShorterAgrees ==
    /\ BothRan
    /\ calc.program = <<leftRight(2) \o <<INST.TL, INST.FW>>>>
    /\ calc.plain = [returned |-> TRUE, solved |-> TRUE, steps |-> 6]
    /\ calc.detecting = calc.plain

\* the runs the plain machine does not solve are not solved by the other
C27_UnsolvedAlike ==
    BothRan /\ ~calc.plain.solved => ~calc.detecting.solved

(***************************************************************************)
(* Two executions of two programs on one interpreter object: when the      *)
(* first has returned, executeProgram or executeWithLoopDetection is       *)
(* called with another program of the level.  first keeps the object the   *)
(* first call returned and the way that call ended.                        *)
(***************************************************************************)
\* the last instruction popped was a Forward that passed its guard and died
DiedForward ==
    /\ hist # <<>>
    /\ LET last == hist[Len(hist)]
           popped == pop(last.pre)
       IN  /\ decodeOpcode(last.instr) = INST.FW
           /\ ~guardFails(popped, last.instr)
           /\ forwardDies(popped)

\* the loop condition of the interpreter that runs
LoopGoesOn ==
    IF vm = "final" THEN finalLoopCondition(state) ELSE loopCondition(state)

\* the way the execution that has returned ended: all stars collected; a
\* death (Forward into the void or off the board, a stack beyond the limit,
\* a state seen before); the stack empty; the step cap reached
EndedBy ==
    IF state.stars = 0 THEN "Solved"
    ELSE IF DiedForward \/ stackOverflow(state) \/ LoopGoesOn THEN "Died"
    ELSE IF Len(state.stack) = 0 THEN "Exhausted"
    ELSE "StepLimitReached"

ExecuteOther ==
    /\ vm \in {"solver", "final"}
    /\ run = 1
    /\ result.returned
    /\ run' = 2
    /\ first' = [returned |-> TRUE, result |-> result, ended |-> EndedBy]
    /\ programFunctions' \in Programs(levelData)
    /\ state' = initialState(levelData, programFunctions')
    /\ stateCache' = IF vm = "final" THEN clearedCache(stateCache) ELSE stateCache
    /\ result' = NoResult
    /\ hist' = <<>>
    /\ UNCHANGED <<vm, levelData, maxSteps, status, search, solverObject, calc>>

InitOutcomes == (Init /\ vm = "solver") \/ InitFinal

NextOutcomes == NextSolver \/ NextFinal \/ ExecuteOther

SpecOutcomes == InitOutcomes /\ [][NextOutcomes]_vars

BothReturned == run = 2 /\ first.returned /\ result.returned

\* C24: two executions that ended in different ways (Solved, Died, Exhausted,
\* StepLimitReached) return different results
C24_ReasonsDistinguished ==
    BothReturned /\ first.ended # EndedBy => first.result # result

\* a death and an empty stack were both returned as { solved: false }
C24_Witness ==
    /\ BothReturned
    /\ first.ended = "Died"
    /\ EndedBy = "Exhausted"
    /\ first.result = result
    /\ result = [returned |-> TRUE, solved |-> FALSE]

\* so were an empty stack and the step cap
C24_CapAsExhausted ==
    /\ BothReturned
    /\ first.ended = "Exhausted"
    /\ EndedBy = "StepLimitReached"
    /\ first.result = result

\* a state seen before is returned with loopDetected, a death of its own kind
C24_LoopTagged ==
    /\ BothReturned
    /\ first.ended = "Died"
    /\ first.result = LoopDetected
    /\ EndedBy # "Died"

\* a solved execution is told from every other
C24_SolvedDistinguished ==
    BothReturned /\ (first.ended = "Solved") # (EndedBy = "Solved") => first.result # result

(***************************************************************************)
(* The programs ConstraintSolver runs and returns.                         *)
(***************************************************************************)
RECURSIVE entriesOf(_)
entriesOf(program) ==
    IF program = <<>> THEN 0 ELSE Len(Head(program)) + entriesOf(Tail(program))

HasNull(program) == \E f \in DOMAIN program : Null \in Range(program[f])

\* a program of the search at the given total: one function per budget,
\* none longer than its budget, every entry an instruction of the level,
\* total entries in all
WellFormed(program, level, total) ==
    LET lengths == functionLengths(level)
        instructions == Range(buildInstructions("constraint", level.activeInstructions))
    IN  /\ Len(program) = Len(lengths)
        /\ \A f \in DOMAIN program :
              /\ Len(program[f]) <= lengths[f]
              /\ Range(program[f]) \subseteq instructions
        /\ entriesOf(program) = total

\* C28: every program ConstraintSolver runs at a total, and the program it
\* returns, has exactly total instructions, no function longer than its
\* budget and no entry (null or stale) that is not an instruction of the level
C28_ProgramsWellFormed ==
    search.solver = "constraint" =>
        /\ search.pc = "depth" =>
              \A i \in DOMAIN search.queue :
                  WellFormed(search.queue[i], levelData, search.totalInstr)
        /\ search.answer.returned /\ search.answer.solved =>
              WellFormed(search.answer.program, levelData, search.totalInstr)

\* the program about to be run at total 2 holds a null and three entries
C28_Witness ==
    /\ search.solver = "constraint"
    /\ search.pc = "depth"
    /\ search.totalInstr = 2
    /\ search.queue # <<>>
    /\ callbackAccepts(search)
    /\ HasNull(Head(search.queue))
    /\ entriesOf(Head(search.queue)) = 3

\* a program with a null is returned as the solution
C28_NullReturned ==
    /\ search.solver = "constraint"
    /\ search.answer.returned
    /\ search.answer.solved
    /\ HasNull(search.answer.program)

\* FinalSolver splices every function before it runs the program
C28_FinalWellFormed ==
    search.solver = "final" /\ search.pc = "depth" =>
        \A i \in DOMAIN search.queue :
            /\ ~HasNull(search.queue[i])
            /\ entriesOf(search.queue[i]) = search.totalInstr

\* without the nulls the programs ConstraintSolver runs have total instructions
C28_NullsApart ==
    search.solver = "constraint" /\ search.pc = "depth" =>
        \A i \in DOMAIN search.queue : totalOf(search.queue[i]) = search.totalInstr

(***************************************************************************)
(* Levels without function slots.                                          *)
(***************************************************************************)
\* the level names no functions, or an empty list of them
NoSlots(level) == "functions" \notin DOMAIN level \/ level.functions = <<>>

\* the results solve returns for a search: found, nothing found, cut off
IsSearchResult(answer) ==
    \/ answer.solved
    \/ answer \in {NoSolution(search.tested), Cancelled(search.tested),
                   TimedOut(search.tested)}

\* C25: for a level with no function slots, or no functions list, no program
\* is generated or run (no default budget stands in for the missing one) and
\* what solve returns is none of the results of a search
C25_InvalidReported ==
    NoSlots(levelData) =>
        /\ search.queue = <<>>
        /\ search.tested = 0
        /\ Returned => ~IsSearchResult(search.answer)

\* the level has an empty list of functions: solve returned { solved: false,
\* tested: 0 }, the result of a search that found nothing
C25_Witness ==
    /\ levelData = NoSlotLevel
    /\ Returned
    /\ search.answer = NoSolution(0)

\* the level has no functions list: programs of the default budget are run
C25_DefaultSearched ==
    /\ "functions" \notin DOMAIN levelData
    /\ search.pc = "depth"
    /\ search.totalInstr = 3
    /\ search.tested = 2
    /\ Head(search.queue) = <<<<INST.TL, INST.TL, INST.TL>>>>

\* for the empty list no program is generated
C25_NothingGenerated ==
    levelData = NoSlotLevel => search.queue = <<>> /\ search.tested = 0

(***************************************************************************)
(* solveLevel(levelData, timeoutMs) of the command-line solver: the        *)
(* programs of generatePrograms for maxTotal = 1, 2, ... are run in turn   *)
(* until one solves the level.  calc holds the level, the locals maxTotal  *)
(* and tested, the programs the generator has still to yield for the       *)
(* current maxTotal (queue) and the object returned (answer).              *)
(***************************************************************************)
\* for (let maxTotal = 1; maxTotal <= 12; maxTotal++)
LevelMaxTotal == 12

\* the step cap the programs are followed under (executeProgram's is 10000)
LevelSteps == 12

\* a run that stops after its first step
levelRunOneStep(level, program) == executeProgram(program, 1, initialState(level, program))

\* executeProgram(levelData, program)
levelRun(level, program) == executeProgram(program, LevelSteps, initialState(level, program))

\* a corridor that lists no instruction; the same with its star collected
BareLevel == [Corridor(1) EXCEPT !.activeInstructions = <<>>]

DoneLevel == [BareLevel EXCEPT !.stars = 0]

SolveLevels == {Corridor(n) : n \in 1..MaxLine} \cup {TurnLevel, BareLevel, DoneLevel}

InitSolveLevel ==
    /\ NoMachine
    /\ \E level \in SolveLevels :
          calc = [op |-> "solveLevel", pc |-> "entry", level |-> level, maxTotal |-> 1,
                  queue |-> <<>>, tested |-> 0, late |-> FALSE, answer |-> NoResult]

\* the start of solveLevel: without instructions the empty program is run
\* and solveLevel returns; with instructions the loop over maxTotal begins
EnterSolveLevel ==
    /\ calc.op = "solveLevel"
    /\ calc.pc = "entry"
    /\ calc' =
          IF Len(calc.level.activeInstructions) = 0
          THEN LET program == emptyProgram(Len(functionLengths(calc.level)))
                   outcome == levelRun(calc.level, program)
               IN  IF outcome.solved
                   THEN [calc EXCEPT !.pc = "done", !.tested = 1,
                                     !.answer = Solution("constraint", program,
                                                         outcome.steps, 0, 1)]
                   ELSE [calc EXCEPT !.pc = "done", !.tested = 1,
                                     !.answer = NoSolution(1)]
          ELSE [calc EXCEPT !.pc = "total"]
    /\ UNCHANGED machineVars

\* the head of the loop over maxTotal: the generator is started
NextTotal ==
    /\ calc.op = "solveLevel"
    /\ calc.pc = "total"
    /\ calc' =
          IF calc.maxTotal > LevelMaxTotal
          THEN [calc EXCEPT !.pc = "done", !.answer = NoSolution(calc.tested)]
          ELSE [calc EXCEPT
                   !.pc = "programs",
                   !.queue = generatePrograms(buildInstructionSet(calc.level.activeInstructions),
                                              functionLengths(calc.level), calc.maxTotal)]
    /\ UNCHANGED machineVars

\* the body of the inner loop for the next program, or the end of that loop
TestProgram ==
    /\ calc.op = "solveLevel"
    /\ calc.pc = "programs"
    /\ calc' =
          IF calc.queue = <<>>
          THEN [calc EXCEPT !.pc = "total", !.maxTotal = @ + 1]
          ELSE IF calc.late
          THEN [calc EXCEPT !.pc = "done", !.answer = NoSolution(calc.tested)]
          ELSE LET program == Head(calc.queue)
                   outcome == levelRun(calc.level, program)
               IN  IF outcome.solved
                   THEN [calc EXCEPT !.pc = "done", !.tested = @ + 1,
                                     !.answer = Solution("constraint", program, outcome.steps,
                                                         calc.maxTotal, calc.tested + 1)]
                   ELSE [calc EXCEPT !.queue = Tail(@), !.tested = @ + 1]
    /\ UNCHANGED machineVars

\* Date.now() - startTime comes to exceed timeoutMs
DeadlinePasses ==
    /\ calc.op = "solveLevel"
    /\ calc.pc \in {"total", "programs"}
    /\ ~calc.late
    /\ calc' = [calc EXCEPT !.late = TRUE]
    /\ UNCHANGED machineVars

NextSolveLevel == EnterSolveLevel \/ NextTotal \/ TestProgram \/ DeadlinePasses

SpecSolveLevel == InitSolveLevel /\ [][NextSolveLevel]_vars

ForwardLoop == <<<<INST.FW, INST.F0>>>>

\* solveLevel has returned for the corridor with the star n tiles ahead, the
\* deadline not passed
ReturnedForCorridor(n) ==
    /\ calc.pc = "done"
    /\ ~calc.late
    /\ calc.level = Corridor(n)

C23_TwoAhead ==
    /\ ReturnedForCorridor(2)
    /\ calc.answer.solved
    /\ calc.answer.program = <<<<INST.FW, INST.FW>>>>
    /\ calc.answer.tested = 5

(***************************************************************************)
(* Solver.solve (solver.js) and the page's autoSolve.  solverObject holds  *)
(* the Solver object of the page: this.running, the calls of solve made on *)
(* it and the call that runs (thread; 0 when the event loop is idle).  A   *)
(* call runs without interruption from its start, or from the end of an    *)
(* await, to its next await or its return.  A call's record holds the      *)
(* locals of solve: subsetSize, the subsets generateInstructionSubsets has *)
(* still to yield from its first three strategies (fixed) and the number   *)
(* of random attempts made (attempt), the subset, depth, depthCount, the   *)
(* programs generatePrograms has still to yield (queue), tested, the       *)
(* result of the program run before an await (pending); late tells that    *)
(* the call's deadline has passed.  Three fields are written, never read,  *)
(* by the code modelled: stopped (stop() was called during the call),      *)
(* ranStopped (the call has run a program since) and alone (no other call  *)
(* was in progress when the call began).                                   *)
(***************************************************************************)
\* calls of solve followed on one Solver object
MaxCalls == 2

\* the callback is called and solve awaits every so many programs (1000 in
\* solver.js)
ProgressEvery == 2

\* const maxPerDepth = 5000
MaxPerDepth == 5000

\* Math.min(allInstr.length, 8) and Math.min(sum of the budgets, 8)
MaxSubset == 8

\* for (let attempt = 0; attempt < 5; attempt++)
Attempts == 5

Max(a, b) == IF a > b THEN a ELSE b

\* array.slice(from, to)
slice(array, from, to) ==
    SubSeq(array, from + 1, Min(to, Len(array)))

IsMovement(i) == i >= 1 /\ i <= 3

IsPaint(i) == i >= 4 /\ i <= 6

IsFuncCall(i) == i >= 7 /\ i <= 9

IsConditional(i) == i >= 100

\* [...instructionSet.unconditional, ...instructionSet.conditional]
allInstrOf(level) == buildInstructionSet(level.activeInstructions)

\* strategy 1 from its i-th round on
RECURSIVE movementWithConditionals(_, _, _, _)
movementWithConditionals(base, conditional, size, i) ==
    IF i >= Min(Len(conditional), size - Len(base))
    THEN <<>>
    ELSE <<base \o slice(conditional, i, i + size - Len(base))>>
            \o movementWithConditionals(base, conditional, size, i + 1)

\* the subsets of strategies 1 to 3 of generateInstructionSubsets, in order
fixedSubsets(allInstr, size) ==
    LET funcCalls == SelectSeq(allInstr, IsFuncCall)
        movement == SelectSeq(allInstr, IsMovement)
        paint == SelectSeq(allInstr, IsPaint)
        conditional == SelectSeq(allInstr, IsConditional)
        withConditionals == IF size >= 3 /\ Len(movement) > 0 /\ Len(conditional) > 0
                 THEN movementWithConditionals(slice(movement, 0, Min(2, size - 1)),
                                               conditional, size, 0)
                 ELSE <<>>
        withPaint == IF size >= 4 /\ Len(movement) > 0 /\ Len(paint) > 0 /\ Len(conditional) > 0
                  THEN <<slice(movement, 0, 2) \o slice(paint, 0, 1)
                            \o slice(conditional, 0, size - 3)>>
                  ELSE <<>>
        withCalls == IF size >= 4 /\ Len(funcCalls) > 0 /\ Len(movement) > 0
                 THEN <<slice(movement, 0, 2) \o slice(funcCalls, 0, Min(2, size - 2))
                            \o slice(conditional, 0, Max(0, size - 4))>>
                 ELSE <<>>
    IN  withConditionals \o withPaint \o withCalls

\* the subsets an attempt of strategy 4 can build: a movement instruction
\* drawn at random, if there is one, then instructions drawn at random, none
\* twice, up to size
randomSubsets(allInstr, size) ==
    {subset \in [1..size -> Range(allInstr)] :
        /\ NoDuplicates(subset)
        /\ (\E i \in Range(allInstr) : IsMovement(i)) => IsMovement(subset[1])}

\* a call of solve that has not run any program
NewCall ==
    [pc |-> "size", onProgress |-> TRUE, subsetSize |-> 3, fixed |-> <<>>, attempt |-> 0,
     subset |-> <<>>, depth |-> 0, depthCount |-> 0, queue |-> <<>>, tested |-> 0,
     pending |-> NoResult, late |-> FALSE, stopped |-> FALSE, ranStopped |-> FALSE,
     alone |-> TRUE,
     answer |-> NoResult]

InProgress(call) == call.pc # "done"

\* corridor levels with a turn among the instructions: the star two tiles
\* ahead; no star within reach
ForkLevel == [Corridor(2) EXCEPT !.activeInstructions = <<"TL", "FW", "F0">>]

FarLevel ==
    [board |-> BoardWith(<<8, 8>> :> 1 @@ <<0, 0>> :> 5),
     player |-> [x |-> 8, y |-> 8, direction |-> 0],
     stars |-> 1,
     activeInstructions |-> <<"TL", "TR", "F0">>,
     functions |-> <<[length |-> 1]>>]

\* one movement and two conditions
GuardLevel == [FarLevel EXCEPT !.activeInstructions = <<"TL", "C1", "C2">>]

AutoLevels == {ForkLevel, FarLevel, GuardLevel, Corridor(1), BareLevel, DoneLevel}

InitAuto ==
    /\ levelData \in AutoLevels
    /\ vm = "none"
    /\ programFunctions = <<>>
    /\ maxSteps = SearchSteps
    /\ state = initialState(levelData, programFunctions)
    /\ status = "ready"
    /\ result = NoResult
    /\ hist = <<>>
    /\ stateCache = {}
    /\ run = 1
    /\ first = NoResult
    /\ search = Idle
    /\ calc = Idle
    /\ solverObject = [running |-> FALSE, thread |-> 0, calls |-> <<>>]

autoVars == <<vmVars, search, calc>>

\* this.running = false: the calls in progress are marked
stopped(calls) ==
    [i \in DOMAIN calls |->
        IF InProgress(calls[i]) THEN [calls[i] EXCEPT !.stopped = TRUE] ELSE calls[i]]

\* solve up to the loop over subsetSize: this.running = true, the test of
\* the empty program for a level without instructions
entered(level, calls) ==
    LET call == [NewCall EXCEPT !.alone = \A i \in DOMAIN calls : ~InProgress(calls[i])]
    IN  IF Len(level.activeInstructions) = 0
        THEN LET program == emptyProgram(Len(functionLengths(level)))
                 outcome == executeProgram(program, SearchSteps, initialState(level, program))
             IN  IF outcome.solved
                 THEN [call EXCEPT !.pc = "done", !.tested = 1,
                                   !.answer = Solution("constraint", program,
                                                       outcome.steps, 0, 1)]
                 ELSE [call EXCEPT !.pc = "done", !.tested = 1, !.answer = NoSolution(1)]
        ELSE call

\* autoSolve: solver.stop(), then solver.solve(levelData, 30000, callback)
\* up to the loop over subsetSize
AutoSolve ==
    /\ solverObject.thread = 0
    /\ Len(solverObject.calls) < MaxCalls
    /\ LET call == entered(levelData, solverObject.calls)
           calls == Append(stopped(solverObject.calls), call)
       IN  solverObject' = [running |-> TRUE,
                            thread |-> IF InProgress(call) THEN Len(calls) ELSE 0,
                            calls |-> calls]
    /\ UNCHANGED autoVars

\* solver.stop() alone
StopSolver ==
    /\ solverObject.thread = 0
    /\ solverObject.running
    /\ solverObject' = [solverObject EXCEPT !.running = FALSE, !.calls = stopped(@)]
    /\ UNCHANGED autoVars

\* the call that runs, and the object after a step that leaves the call as next
Running == solverObject.calls[solverObject.thread]

After(next) ==
    [solverObject EXCEPT !.calls[solverObject.thread] = next,
                         !.thread = IF next.pc \in {"done", "await"} THEN 0 ELSE @]

Return(call, answer) == [call EXCEPT !.pc = "done", !.answer = answer]

\* the head of the loop over subsetSize
SubsetSizeHead ==
    /\ solverObject.thread # 0
    /\ Running.pc = "size"
    /\ LET call == Running
           allInstr == allInstrOf(levelData)
       IN  solverObject' = After(
              IF call.subsetSize > Min(Len(allInstr), MaxSubset)
              THEN Return(call, NoSolution(call.tested))
              ELSE [call EXCEPT !.pc = "subsets",
                                !.fixed = fixedSubsets(allInstr, call.subsetSize),
                                !.attempt = 0])
    /\ UNCHANGED autoVars

\* the checks at the top of the body of the loop over the subsets
withSubset(call, subset) ==
    IF ~solverObject.running THEN Return(call, Cancelled(call.tested))
    ELSE IF call.late THEN Return(call, TimedOut(call.tested))
    ELSE [call EXCEPT !.subset = subset, !.depth = 1, !.pc = "depth"]

\* generateInstructionSubsets is asked for its next subset
NextSubset ==
    /\ solverObject.thread # 0
    /\ Running.pc = "subsets"
    /\ LET call == Running
           allInstr == allInstrOf(levelData)
       IN  IF call.fixed # <<>>
           THEN solverObject' = After(withSubset([call EXCEPT !.fixed = Tail(@)],
                                                 Head(call.fixed)))
           ELSE IF call.attempt < Attempts
           THEN \E subset \in randomSubsets(allInstr, call.subsetSize) :
                   solverObject' = After(withSubset([call EXCEPT !.attempt = @ + 1], subset))
           ELSE solverObject' = After([call EXCEPT !.pc = "size", !.subsetSize = @ + 1])
    /\ UNCHANGED autoVars

\* the head of the loop over depth
DepthHead ==
    /\ solverObject.thread # 0
    /\ Running.pc = "depth"
    /\ LET call == Running
           lengths == functionLengths(levelData)
       IN  solverObject' = After(
              IF call.depth > Min(sum(lengths), MaxSubset)
              THEN [call EXCEPT !.pc = "subsets"]
              ELSE [call EXCEPT !.pc = "programs", !.depthCount = 0,
                                !.queue = generatePrograms(call.subset, lengths, call.depth)])
    /\ UNCHANGED autoVars

\* the body of the loop over the programs from `if (result.solved)` on
afterTest(call) ==
    IF call.pending.solved
    THEN Return(call, Solution("constraint", Head(call.queue), call.pending.steps,
                               call.depth, call.tested))
    ELSE IF call.depthCount >= MaxPerDepth
    THEN [call EXCEPT !.pc = "depth", !.depth = @ + 1, !.queue = <<>>, !.pending = NoResult]
    ELSE [call EXCEPT !.pc = "programs", !.queue = Tail(@), !.pending = NoResult]

\* generatePrograms is asked for its next program, which is run
TestNext ==
    /\ solverObject.thread # 0
    /\ Running.pc = "programs"
    /\ LET call == Running
       IN  solverObject' = After(
              IF call.queue = <<>>
              THEN [call EXCEPT !.pc = "depth", !.depth = @ + 1]
              ELSE IF ~solverObject.running THEN Return(call, Cancelled(call.tested))
              ELSE IF call.late THEN Return(call, TimedOut(call.tested))
              ELSE LET program == Head(call.queue)
                       ran == [call EXCEPT
                                  !.pending = executeProgram(program, SearchSteps,
                                                             initialState(levelData, program)),
                                  !.tested = @ + 1,
                                  !.depthCount = @ + 1,
                                  !.ranStopped = call.stopped]
                   IN  IF ran.tested % ProgressEvery = 0 /\ ran.onProgress
                       THEN [ran EXCEPT !.pc = "await"]
                       ELSE afterTest(ran))
    /\ UNCHANGED autoVars

\* the timer of an await fires: the call goes on behind the await
ResumeCall ==
    /\ solverObject.thread = 0
    /\ \E i \in DOMAIN solverObject.calls :
          /\ solverObject.calls[i].pc = "await"
          /\ LET next == afterTest(solverObject.calls[i])
             IN  solverObject' = [solverObject EXCEPT
                                     !.calls[i] = next,
                                     !.thread = IF next.pc = "done" THEN 0 ELSE i]
    /\ UNCHANGED autoVars

\* Date.now() - startTime comes to exceed timeoutMs for a call
CallDeadlinePasses ==
    /\ \E i \in DOMAIN solverObject.calls :
          /\ InProgress(solverObject.calls[i])
          /\ ~solverObject.calls[i].late
          /\ solverObject' = [solverObject EXCEPT !.calls[i].late = TRUE]
    /\ UNCHANGED autoVars

NextAuto ==
    \/ AutoSolve
    \/ StopSolver
    \/ SubsetSizeHead
    \/ NextSubset
    \/ DepthHead
    \/ TestNext
    \/ ResumeCall
    \/ CallDeadlinePasses

SpecAuto == InitAuto /\ [][NextAuto]_vars

\* the calls made so far; what a call returned is a solution or "nothing
\* found", neither cancelled nor timed out
Calls == solverObject.calls

Untagged(answer) ==
    answer.returned /\ (answer.solved \/ answer = NoSolution(answer.tested))

\* two calls of solve on the level, the second begun after the first had
\* returned, both returned without timeout or cancellation
TwoRuns ==
    /\ Len(Calls) = 2
    /\ Calls[2].alone
    /\ Untagged(Calls[1].answer)
    /\ Untagged(Calls[2].answer)

\* C21: two runs of the solver on the same level with the same budgets, not
\* timed out and not cancelled, return the same first solution with the same
\* number of programs tested
C21_SameAnswer == TwoRuns => Calls[1].answer = Calls[2].answer

\* the star two tiles ahead: one run returned F0 = [FW, FW], the other
\* F0 = [FW, F0]
C21_Witness ==
    /\ TwoRuns
    /\ levelData = ForkLevel
    /\ Calls[1].answer.solved
    /\ Calls[2].answer.solved
    /\ Calls[1].answer.program = <<<<INST.FW, INST.FW>>>>
    /\ Calls[2].answer.program = ForwardLoop

\* the same program returned, after different numbers of programs tested
C21_CountsDiffer ==
    /\ TwoRuns
    /\ Calls[1].answer.solved
    /\ Calls[2].answer.solved
    /\ Calls[1].answer.program = Calls[2].answer.program
    /\ Calls[1].answer.tested # Calls[2].answer.tested

\* where nothing is found, the two runs have tested as many programs
C21_SameCountUnsolved ==
    TwoRuns /\ ~Calls[1].answer.solved => Calls[1].answer = Calls[2].answer

\* C29: a call of solve during which stop() was called runs no program after
\* its next check of this.running and returns cancelled, also when solve is
\* called again right after stop() while the call is suspended at its await
C29_StopCancels ==
    \A i \in DOMAIN Calls :
        Calls[i].stopped =>
            /\ ~Calls[i].ranStopped
            /\ Calls[i].pc = "done" => Calls[i].answer = Cancelled(Calls[i].tested)

\* autoSolve was called during the first call's await: the first call has
\* run programs since, the second has run programs too, both are in progress
C29_Witness ==
    /\ Len(Calls) = 2
    /\ Calls[1].stopped
    /\ Calls[1].ranStopped
    /\ InProgress(Calls[1])
    /\ InProgress(Calls[2])
    /\ Calls[2].tested > 0
    /\ solverObject.running

\* the first call, stopped by autoSolve, went on to its end and returned
\* "nothing found"
C29_SearchedToTheEnd ==
    /\ Len(Calls) = 2
    /\ Calls[1].stopped
    /\ Calls[1].ranStopped
    /\ ~Calls[1].late
    /\ Calls[1].answer = NoSolution(Calls[1].tested)

\* stop() with no call of solve after it: the call runs no further program
C29_StopAlone ==
    Len(Calls) = 1 /\ Calls[1].stopped => ~Calls[1].ranStopped

\* stop() during the await behind the last program of the search, no call
\* of solve after it: the call returns "nothing found"
C29_StoppedAtLastAwait ==
    /\ Len(Calls) = 1
    /\ Calls[1].stopped
    /\ ~Calls[1].late
    /\ Calls[1].answer = NoSolution(Calls[1].tested)

\* stop() during the await behind the program that solves the level: the
\* call returns the solution
C29_StoppedWithSolution ==
    /\ Len(Calls) = 1
    /\ Calls[1].stopped
    /\ Calls[1].pc = "done"
    /\ Calls[1].answer.solved

\* stop() during another await, no call of solve after it, the deadline not
\* passed: the call returns cancelled
C29_StopAloneCancelled ==
    /\ Len(Calls) = 1
    /\ Calls[1].stopped
    /\ Calls[1].answer = Cancelled(Calls[1].tested)

(***************************************************************************)
(* AdvancedSolver.solve: a queue of limits { maxInstr, maxSteps, cost };   *)
(* the cheapest limits are taken, every program of at most maxInstr        *)
(* instructions is run under the cap maxSteps and, when none solves the    *)
(* level, wider limits are queued.  The record `search` holds              *)
(* priorityQueue, explored, the limits in hand, tested, bestSolution,      *)
(* this.running, the time elapsed since startTime, the position in the     *)
(* code (pc) and the object returned (answer).  The field executed counts   *)
(* the programs run; it is written, never read, by solve.  The model       *)
(* follows a run of a program for SearchSteps steps at most, whatever       *)
(* maxSteps is.                                                            *)
(***************************************************************************)
\* priorityQueue.push({ maxInstr: 1, maxSteps: 50, cost: 1 }); the steps
\* added by a widening
FirstSteps == 50

\* limits.maxSteps < 500, limits.maxSteps < 200, limits.maxInstr < 10
StepsCeiling == 500

DiagonalSteps == 200

DiagonalInstr == 10

\* if (priorityQueue.length > 20) priorityQueue.length = 20
QueueLimit == 20

Limits(maxInstr, maxStepsOf, cost) == [maxInstr |-> maxInstr, maxSteps |-> maxStepsOf, cost |-> cost]

\* AdvancedSolver's constraints at the start of a function
NoTurnConstraints ==
    [leftTurns |-> 0, rightTurns |-> 0, terminated |-> FALSE,
     noLeftTurn |-> FALSE, noRightTurn |-> FALSE]

\* AdvancedSolver.propagateConstraints
propagateTurns(constraints, instruction) ==
    LET opcode == decodeOpcode(instruction)
        called == [constraints EXCEPT
                      !.terminated = @ \/ IsUnconditionalCall(instruction)]
    IN  IF opcode = INST.TL
        THEN [called EXCEPT !.leftTurns = @ + 1, !.rightTurns = 0,
                            !.noRightTurn = @ \/ constraints.leftTurns + 1 >= 2]
        ELSE IF opcode = INST.TR
        THEN [called EXCEPT !.rightTurns = @ + 1, !.leftTurns = 0,
                            !.noLeftTurn = @ \/ constraints.rightTurns + 1 >= 2]
        ELSE [called EXCEPT !.leftTurns = 0, !.rightTurns = 0,
                            !.noLeftTurn = FALSE, !.noRightTurn = FALSE]

\* AdvancedSolver.getValidInstructions
validAfter(constraints, allInstructions) ==
    LET Allowed(i) ==
            /\ constraints.noLeftTurn => decodeOpcode(i) # INST.TL
            /\ constraints.noRightTurn => decodeOpcode(i) # INST.TR
    IN  IF constraints.terminated THEN <<>> ELSE SelectSeq(allInstructions, Allowed)

\* searchWithLimits: the programs handed to the callback, in order.  ctx
\* holds instructions, funcLengths and maxInstr; funcIdx counts from 0
RECURSIVE limitedSearch(_, _, _, _)
RECURSIVE limitedLengths(_, _, _, _, _)
RECURSIVE fillFunctionDFS(_, _, _, _, _, _, _)
RECURSIVE fillEach(_, _, _, _, _, _, _, _, _)

limitedSearch(ctx, funcIdx, totalInstr, program) ==
    IF funcIdx >= Len(ctx.funcLengths)
    THEN <<program>>
    ELSE limitedLengths(ctx, funcIdx, totalInstr, program, 0)

\* for (let len = 0; len <= maxLen; len++), from len on
limitedLengths(ctx, funcIdx, totalInstr, program, len) ==
    IF len > Min(ctx.funcLengths[funcIdx + 1], ctx.maxInstr - totalInstr)
    THEN <<>>
    ELSE (IF len = 0
          THEN limitedSearch(ctx, funcIdx + 1, totalInstr, program)
          ELSE fillFunctionDFS(ctx, funcIdx, totalInstr, program, len, <<>>, NoTurnConstraints))
            \o limitedLengths(ctx, funcIdx, totalInstr, program, len + 1)

\* the search of fillFunctionDFS at position Len(filled), the positions
\* before it holding filled
fillFunctionDFS(ctx, funcIdx, totalInstr, program, len, filled, constraints) ==
    IF Len(filled) >= len
    THEN limitedSearch(ctx, funcIdx + 1, totalInstr + len, setAt(program, funcIdx, filled))
    ELSE fillEach(ctx, funcIdx, totalInstr, program, len, filled, constraints, validAfter(constraints, ctx.instructions), 1)

\* for (const instr of allowed), from the j-th instruction on
fillEach(ctx, funcIdx, totalInstr, program, len, filled, constraints, allowed, j) ==
    IF j > Len(allowed)
    THEN <<>>
    ELSE fillFunctionDFS(ctx, funcIdx, totalInstr, program, len, Append(filled, allowed[j]), propagateTurns(constraints, allowed[j]))
            \o fillEach(ctx, funcIdx, totalInstr, program, len, filled, constraints, allowed, j + 1)

programsWithin(level, maxInstr) ==
    LET funcLengths == functionLengths(level)
    IN  limitedSearch([instructions |-> buildInstructions("final", level.activeInstructions),
                       funcLengths |-> funcLengths, maxInstr |-> maxInstr],
                      0, 0, emptyProgram(Len(funcLengths)))

\* this.executeProgram(levelData, program, limits.maxSteps)
limitedRun(level, program, limits) ==
    executeProgram(program, Min(limits.maxSteps, SearchSteps), initialState(level, program))

\* the index of the first program of the sequence that solves the level, 0
\* if none does
RECURSIVE firstSolved(_, _, _, _)
firstSolved(level, programs, limits, i) ==
    IF i > Len(programs) THEN 0
    ELSE IF limitedRun(level, programs[i], limits).solved THEN i
    ELSE firstSolved(level, programs, limits, i + 1)

\* searchWithLimits with the callback of solve: what it returns, the number
\* of calls of the callback, of which deaths with success false, and the
\* number of programs run.  A callback that refuses is called for every
\* program and no program is run
searchWithLimits(level, limits, accepts) ==
    LET programs == programsWithin(level, limits.maxInstr)
        found == IF accepts THEN firstSolved(level, programs, limits, 1) ELSE 0
    IN  IF found = 0
        THEN [result |-> [returned |-> TRUE, solved |-> FALSE],
              attempts |-> Len(programs), deaths |-> Len(programs),
              runs |-> IF accepts THEN Len(programs) ELSE 0]
        ELSE [result |-> [returned |-> TRUE, solved |-> TRUE, program |-> programs[found],
                          steps |-> limitedRun(level, programs[found], limits).steps,
                          instrCount |-> totalOf(programs[found])],
              attempts |-> found + 1, deaths |-> found, runs |-> found]

\* priorityQueue.sort((a, b) => a.cost - b.cost): entries of equal cost keep
\* their order
RECURSIVE insertByCost(_, _)
insertByCost(sorted, entry) ==
    IF sorted = <<>> THEN <<entry>>
    ELSE IF Head(sorted).cost <= entry.cost
    THEN <<Head(sorted)>> \o insertByCost(Tail(sorted), entry)
    ELSE <<entry>> \o sorted

RECURSIVE sortByCost(_)
sortByCost(queue) ==
    IF queue = <<>> THEN <<>>
    ELSE insertByCost(sortByCost(SubSeq(queue, 1, Len(queue) - 1)), queue[Len(queue)])

\* the limits queued behind a search: tighter ones behind a solution, wider
\* ones behind a failure
expanded(level, limits, found) ==
    LET outcome == found.result
        total == sum(functionLengths(level))
        lowDeaths == found.attempts > 0 /\ 2 * found.deaths < found.attempts
        highDeaths == found.attempts = 0 \/ 10 * found.deaths > 3 * found.attempts
    IN  IF outcome.solved
        THEN IF outcome.instrCount > 1
             THEN <<Limits(outcome.instrCount - 1, limits.maxSteps,
                           (outcome.instrCount - 1) * 1000 + limits.maxSteps)>>
             ELSE <<>>
        ELSE (IF lowDeaths /\ limits.maxInstr < total
              THEN <<Limits(limits.maxInstr + 1, limits.maxSteps,
                            (limits.maxInstr + 1) * 1000 + limits.maxSteps)>>
              ELSE <<>>)
             \o (IF highDeaths /\ limits.maxSteps < StepsCeiling
                 THEN <<Limits(limits.maxInstr, limits.maxSteps + FirstSteps,
                               limits.maxInstr * 1000 + limits.maxSteps + FirstSteps)>>
                 ELSE <<>>)
             \o (IF limits.maxInstr < DiagonalInstr /\ limits.maxSteps < DiagonalSteps
                 THEN <<Limits(limits.maxInstr + 1, limits.maxSteps + FirstSteps,
                               (limits.maxInstr + 1) * 1000 + limits.maxSteps + FirstSteps)>>
                 ELSE <<>>)

\* a level without a solution whose budgets add up to five; the star is out
\* of reach
WideLevel == [FarLevel EXCEPT !.functions = <<[length |-> 3], [length |-> 2]>>,
                              !.activeInstructions = <<"FW", "TL">>]

AdvancedLevels == {WideLevel, FarLevel, TurnLevel, NoSlotLevel, Corridor(2), Corridor(3)}

InitAdvanced ==
    /\ levelData \in AdvancedLevels
    /\ vm = "none"
    /\ programFunctions = <<>>
    /\ maxSteps = SearchSteps
    /\ state = initialState(levelData, programFunctions)
    /\ status = "ready"
    /\ result = NoResult
    /\ hist = <<>>
    /\ stateCache = {}
    /\ run = 1
    /\ first = NoResult
    /\ solverObject = Idle
    /\ calc = Idle
    /\ \E onProgress \in BOOLEAN :
          search = [pc |-> "head", solver |-> "advanced", onProgress |-> onProgress,
                    priorityQueue |-> <<Limits(1, FirstSteps, 1)>>, explored |-> {},
                    limits |-> Limits(1, FirstSteps, 1), tested |-> 0, executed |-> 0,
                    bestSolution |-> NoResult, running |-> TRUE, elapsed |-> 0,
                    answer |-> NoResult]

\* bestSolution || fallback
bestOr(fallback) ==
    IF search.bestSolution.returned THEN search.bestSolution ELSE fallback

\* the search with the limits in hand and what follows it in the body of
\* the loop
searchedWith(s, limits) ==
    LET found == searchWithLimits(levelData, limits, s.elapsed < TimeoutMs /\ s.running)
        better == found.result.solved
                    /\ (~s.bestSolution.returned
                        \/ found.result.instrCount < s.bestSolution.instrCount)
        queue == s.priorityQueue \o expanded(levelData, limits, found)
    IN  [s EXCEPT !.pc = "head",
                  !.tested = @ + found.attempts,
                  !.executed = @ + found.runs,
                  !.bestSolution = IF better THEN found.result ELSE @,
                  !.priorityQueue = SubSeq(queue, 1, Min(Len(queue), QueueLimit))]

withoutKey(explored, key) == explored

\* explored.add(key)
withKey(explored, key) == explored \cup {key}

\* the head of the while loop, the limits taken from the queue, and, when no
\* callback is given, the search with them
AdvancedHead ==
    /\ search.solver = "advanced"
    /\ search.pc = "head"
    /\ search' =
          IF ~(Len(search.priorityQueue) > 0 /\ search.running)
          THEN [search EXCEPT !.pc = "done", !.answer = bestOr(NoSolution(search.tested))]
          ELSE IF search.elapsed > TimeoutMs
          THEN [search EXCEPT !.pc = "done", !.answer = bestOr(TimedOut(search.tested))]
          ELSE LET sorted == sortByCost(search.priorityQueue)
                   limits == Head(sorted)
                   key == <<limits.maxInstr, limits.maxSteps>>
                   taken == [search EXCEPT !.priorityQueue = Tail(sorted)]
               IN  IF key \in search.explored
                   THEN taken
                   ELSE LET marked == [taken EXCEPT !.explored = withKey(@, key),
                                                    !.limits = limits]
                        IN  IF search.onProgress
                            THEN [marked EXCEPT !.pc = "yield"]
                            ELSE searchedWith(marked, limits)
    /\ UNCHANGED <<vmVars, solverObject, calc>>

\* solve goes on after the await
AdvancedResume ==
    /\ search.solver = "advanced"
    /\ search.pc = "yield"
    /\ search' = searchedWith(search, search.limits)
    /\ UNCHANGED <<vmVars, solverObject, calc>>

\* stop(), called while solve awaits
AdvancedStop ==
    /\ search.solver = "advanced"
    /\ search.pc = "yield"
    /\ search.running
    /\ search' = [search EXCEPT !.running = FALSE]
    /\ UNCHANGED <<vmVars, solverObject, calc>>

\* time passes
AdvancedTick ==
    /\ search.solver = "advanced"
    /\ search.pc \in {"head", "yield"}
    /\ search.elapsed < MaxElapsed
    /\ search' = [search EXCEPT !.elapsed = @ + 1]
    /\ UNCHANGED <<vmVars, solverObject, calc>>

NextAdvanced == AdvancedHead \/ AdvancedResume \/ AdvancedStop \/ AdvancedTick

SpecAdvanced == InitAdvanced /\ [][NextAdvanced]_vars

\* the instruction-count limits searched so far
SearchedLimits == {key[1] : key \in search.explored}

\* solve reported failure, with neither the deadline reached nor stop() called
FailedUndisturbed ==
    /\ search.pc = "done"
    /\ search.answer = NoSolution(search.tested)
    /\ search.elapsed < TimeoutMs
    /\ search.running

\* C30: when AdvancedSolver.solve reports failure, neither timed out nor
\* cancelled, it has searched with every instruction-count limit from 1 to
\* the sum of the function budgets
C30_EveryLimitSearched ==
    FailedUndisturbed => \A k \in 1..sum(functionLengths(levelData)) : k \in SearchedLimits

\* budgets 3 and 2, no solution: failure reported with the limits 1 to 4
\* searched, each up to 500 steps, and the limit 5 never
C30_Witness ==
    /\ FailedUndisturbed
    /\ levelData = WideLevel
    /\ SearchedLimits = 1..4
    /\ <<4, StepsCeiling>> \in search.explored

\* a level whose budgets add up to 4 or less: every limit is searched
C30_SmallBudgets ==
    FailedUndisturbed /\ sum(functionLengths(levelData)) <= 4
        => \A k \in 1..sum(functionLengths(levelData)) : k \in SearchedLimits

\* the instruction limit is never raised at the same step cap
C30_NeverInstrAlone ==
    \A i \in DOMAIN search.priorityQueue :
        LET entry == search.priorityQueue[i]
        IN  entry.maxInstr > 1 /\ ~search.bestSolution.returned
                => entry.maxSteps >= FirstSteps * entry.maxInstr

(***************************************************************************)
(* The robot and the tiles of the run's board.                             *)
(***************************************************************************)
OnBoard(st) == st.x \in Coords /\ st.y \in Coords

\* the robot stands on a tile of the board that is not void
OnWalkable(st) == OnBoard(st) /\ st.board[st.y][st.x] # 0

\* the level's start tile is in bounds and walkable
StartsWalkable ==
    /\ levelData.player.x \in Coords
    /\ levelData.player.y \in Coords
    /\ levelData.board[levelData.player.y][levelData.player.x] # 0

\* no tile of the level holds a star without a colour (the value 4)
NoColourlessStar == \A y \in Coords : \A x \in Coords : levelData.board[y][x] # 4

\* a Forward off the board or into a void tile is the last step of the run,
\* the run has failed and the robot is where it was
DeathLeavesRobot ==
    \A i \in Steps :
        Executes(i, 1) /\ (FacesEdge(i) \/ FacesVoid(i)) =>
            /\ i = Len(hist)
            /\ Failed
            /\ state.x = Pre(i).x
            /\ state.y = Pre(i).y
            /\ OnWalkable(state)

\* C37 as stated: from a level whose start tile is in bounds and walkable,
\* the robot is at every moment on a tile of the board that is not void, and
\* a Forward off the board or into the void ends the run as failed with the
\* robot on its last walkable tile
C37_OnWalkableTile == StartsWalkable => OnWalkable(state) /\ DeathLeavesRobot

\* C37: from a level whose start tile is in bounds and walkable and which
\* has no star on a tile without colour, the robot is at every moment on a
\* tile of the board that is not void, and a Forward off the board or into
\* the void ends the run as failed with the robot on its last walkable tile
C37_OnColouredTile ==
    StartsWalkable /\ NoColourlessStar => OnWalkable(state) /\ DeathLeavesRobot

\* the robot has moved, collecting a star, and then died at the void or at
\* the edge, on a level without colourless stars
C37_Witness ==
    /\ StartsWalkable
    /\ NoColourlessStar
    /\ Len(hist) > 1
    /\ Executes(Len(hist), 1)
    /\ FacesEdge(Len(hist)) \/ FacesVoid(Len(hist))
    /\ \E i \in Steps : i \in CollectingMoves
    /\ Failed

\* the robot has collected the star of a tile without colour and stands on
\* the void the pickup left
C37_OnVoid ==
    /\ StartsWalkable
    /\ Len(hist) > 0
    /\ MovesForward(Len(hist))
    /\ AheadTile(Len(hist)) = 4
    /\ state.board[state.y][state.x] = 0

\* the values of a tile: void, or one of three colours with or without a star
TileValues == 0..7

\* every tile of the board has a tile's value
TilesInRange(board) == \A y \in Coords : \A x \in Coords : board[y][x] \in TileValues

\* a tile is void after exactly if it was before, and has a tile's value
KindKept(before, after) == (before = 0 <=> after = 0) /\ after \in TileValues

\* every tile of the run's board is of the kind it was in the level
TilesKeepKind ==
    \A y \in Coords : \A x \in Coords :
        KindKept(levelData.board[y][x], state.board[y][x])

C38_TurnedVoid ==
    /\ TilesInRange(levelData.board)
    /\ \E y \in Coords : \E x \in Coords :
          levelData.board[y][x] = 4 /\ state.board[y][x] = 0

\* the number of tiles of the board that hold a star
StarTiles(board) ==
    Cardinality({c \in Coords \X Coords : HeldStar(board[c[2]][c[1]])})

\* the level's star count is the number of star tiles of its board
StarsCounted == levelData.stars = StarTiles(levelData.board)

\* C39: on a level whose star count is the number of star tiles of its
\* board, the remaining star count is at every moment the number of star
\* tiles of the run's board; no step raises it and it is never negative
C39_StarsAreStarTiles ==
    StarsCounted =>
        /\ state.stars = StarTiles(state.board)
        /\ state.stars >= 0
        /\ \A i \in Steps : Post(i).stars <= Pre(i).stars

\* two of three stars collected, one of them entered again, one star left
\* on the board
C39_Witness ==
    /\ StarsCounted
    /\ levelData.stars = 3
    /\ state.stars = 1
    /\ StarTiles(state.board) = 1
    /\ Cardinality({i \in Steps : MovesForward(i)}) > 2

\* the length of the longest function of the program
LongestFunction ==
    LET lengths == {Len(programFunctions[f]) : f \in DOMAIN programFunctions} \cup {0}
    IN  CHOOSE n \in lengths : \A m \in lengths : m <= n

\* C40: the execution stack never holds more than 99 instructions plus the
\* length of the longest function, and a call is executed only from a stack
\* of at most 100 instructions
C40_StackBounded ==
    /\ Len(state.stack) <= StackLimit - 1 + LongestFunction
    /\ \A i \in Steps : IsDefinedCall(i) => Len(Pre(i).stack) <= StackLimit

\* the bound is attained: a call executed on a stack of 100 has left 99
\* instructions and the longest function on the stack
C40_Witness ==
    /\ Len(hist) > 1
    /\ IsDefinedCall(Len(hist))
    /\ Len(Pre(Len(hist)).stack) = StackLimit
    /\ Len(state.stack) = StackLimit - 1 + LongestFunction
    /\ ~Finished

(***************************************************************************)
(* A program run by Solver.executeProgram and then, loaded into the game   *)
(* by runProgram, by GameEngine.step until the game is won or failed.      *)
(***************************************************************************)
\* a star one tile ahead; F1 is an instruction of the level, which has one
\* function
LoneSlotLevel == [Corridor(1) EXCEPT !.activeInstructions = <<"FW", "F1">>]

InitBoth ==
    /\ levelData \in Levels \cup {LoneSlotLevel}
    /\ programFunctions \in Programs(levelData) \cup LongPrograms(levelData)
    /\ vm = "solver"
    /\ maxSteps = MaxSteps
    /\ state = initialState(levelData, programFunctions)
    /\ status = "ready"
    /\ result = NoResult
    /\ hist = <<>>
    /\ stateCache = {}
    /\ run = 1
    /\ first = NoResult
    /\ search = Idle
    /\ solverObject = Idle
    /\ calc = Idle

\* runProgram: gameEngine.reset() and gameEngine.loadProgram(currentProgram)
\* with the program the solver has run
RunProgram ==
    /\ vm = "solver"
    /\ run = 1
    /\ result.returned
    /\ vm' = "engine"
    /\ run' = 2
    /\ first' = [returned |-> TRUE, result |-> result, steps |-> state.steps]
    /\ state' = initialState(levelData, programFunctions)
    /\ status' = "ready"
    /\ result' = NoResult
    /\ hist' = <<>>
    /\ maxSteps' = MaxEngineSteps
    /\ UNCHANGED <<levelData, programFunctions, stateCache, search, solverObject, calc>>

NextBoth == SolverIterate \/ SolverReturn \/ RunProgram \/ EngineStep

SpecBoth == InitBoth /\ [][NextBoth]_vars

\* the solver's run ended before its step cap and the game has ended
BothEnded ==
    /\ run = 2
    /\ vm = "engine"
    /\ first.returned
    /\ first.steps < MaxSteps
    /\ status \in {"won", "failed"}

\* C35: a program the Solver's VM solves in s steps, the step cap not
\* reached, is won by the GameEngine in s steps, and a program the Solver's
\* VM fails is not won by the GameEngine
C35_InterpretersAgree ==
    BothEnded =>
        /\ first.result.solved <=> status = "won"
        /\ first.result.solved => state.steps = first.result.steps

\* solved by the Solver's VM, which passed over the call of a function the
\* program lacks; failed by the GameEngine in that call
C35_Witness ==
    /\ BothEnded
    /\ first.result.solved
    /\ status = "failed"
    /\ Len(hist) > 0
    /\ CallsNothing(Len(hist))
    /\ (OpOf(Len(hist)) - 7 + 1) \notin DOMAIN programFunctions

\* the program calls no function it lacks
CallsDefined ==
    \A f \in DOMAIN programFunctions : \A k \in DOMAIN programFunctions[f] :
        IsCall(decodeOpcode(programFunctions[f][k])) =>
            functionDefined(decodeOpcode(programFunctions[f][k]) - INST.F0)

\* the interpreters agree on the programs that call no function they lack
C35_AgreeOnDefinedCalls == CallsDefined => C35_InterpretersAgree

\* won by the game in the steps the solver counted, calls included
C35_BothSolved ==
    /\ BothEnded
    /\ first.result.solved
    /\ status = "won"
    /\ state.steps = first.result.steps
    /\ \E i \in Steps : IsDefinedCall(i)

(***************************************************************************)
(* AdvancedSolver.solve with a deadline that never passes.  solve is code  *)
(* that runs: the body of its loop is executed when it can be, and the     *)
(* timer of its await fires.  stop() may be called or not.  One of the two *)
(* steps of solve can be taken as long as solve has not returned, so weak  *)
(* fairness of them is stated as: solve has returned, or its steps go on.  *)
(***************************************************************************)
NextUntimed == AdvancedHead \/ AdvancedResume \/ AdvancedStop

SolveRuns == AdvancedHead \/ AdvancedResume

SpecUntimed ==
    InitAdvanced /\ [][NextUntimed]_vars
        /\ (<>[](search.pc = "done") \/ []<><<SolveRuns>>_vars)

KeyOf(limits) == <<limits.maxInstr, limits.maxSteps>>

\* the pairs (instruction limit, step cap) solve can queue for the level
PossiblePairs ==
    (1..Max(DiagonalInstr, sum(functionLengths(levelData))))
        \X {FirstSteps * k : k \in 1..(StepsCeiling \div FirstSteps)}

\* the pairs queued and the pairs searched are among the possible ones
PairsBounded ==
    /\ \A i \in DOMAIN search.priorityQueue : KeyOf(search.priorityQueue[i]) \in PossiblePairs
    /\ search.explored \subseteq PossiblePairs

\* the limits in hand after the step are marked by it, and were not before
MarksFresh ==
    /\ KeyOf(search'.limits) \notin search.explored
    /\ search'.explored = search.explored \cup {KeyOf(search'.limits)}

\* C36: without a timeout AdvancedSolver.solve returns: a pair (instruction
\* limit, step cap) is searched only in the iteration that marks it
\* explored, a mark is never removed, so that no pair is searched twice, and
\* the pairs queued are among finitely many
C36_Terminates ==
    /\ <>(search.pc = "done")
    /\ []PairsBounded
    /\ [][search.explored \subseteq search'.explored]_vars
    /\ [][search.pc = "head" /\ search'.pc = "yield" => MarksFresh]_vars
    /\ [][search'.tested # search.tested =>
            IF search.pc = "yield"
            THEN search'.explored = search.explored /\ search'.limits = search.limits
            ELSE MarksFresh]_vars

\* solve has returned with the queue empty, neither stopped nor timed out,
\* after the search of more than ten pairs
C36_Witness ==
    /\ search.solver = "advanced"
    /\ search.pc = "done"
    /\ search.running
    /\ search.elapsed = 0
    /\ search.priorityQueue = <<>>
    /\ Cardinality(search.explored) > 10

\* solve has returned an object that holds a count of candidates
CountPresent == Returned => "tested" \in DOMAIN search.answer

\* C31: every result of solve holds the count tested, and tested is the
\* number of programs the VM has run in the call: it grows by one in a step
\* that runs a program and in no other, so that a program passed over behind
\* the deadline or behind stop() is not counted
C31_CountsExecuted ==
    /\ []CountPresent
    /\ [][search'.tested = search.tested + (IF RunsProgram THEN 1 ELSE 0)]_vars

\* FinalSolver was stopped in its first await, before any program was run:
\* it returned cancelled with every program of one instruction counted
C31_Witness ==
    /\ search.solver = "final"
    /\ Returned
    /\ search.answer = Cancelled(search.tested)
    /\ search.totalInstr = 2
    /\ search.refused
    /\ search.tested = Len(candidates("final", levelData, 1))
    /\ search.tested > 0

\* the deadline passed during the search of a total: the result counts
\* programs that were generated and not run
C31_SkippedCounted ==
    /\ Returned
    /\ search.refused
    /\ search.running
    /\ search.answer.tested = search.tested
    /\ search.tested > 1

\* AdvancedSolver.solve returns the solution without a count
C31_NoCount ==
    /\ search.solver = "advanced"
    /\ search.pc = "done"
    /\ search.answer.solved
    /\ "tested" \notin DOMAIN search.answer

\* AdvancedSolver.solve has counted the program that solves the level twice
C31_CountedTwice ==
    /\ search.solver = "advanced"
    /\ search.pc = "done"
    /\ search.running
    /\ search.elapsed = 0
    /\ search.bestSolution.returned
    /\ search.tested > search.executed

\* AdvancedSolver.solve, neither stopped nor timed out and with no solution,
\* counts the programs run
C31_FailedCountsRuns ==
    search.solver = "advanced" /\ FailedUndisturbed /\ search.elapsed = 0
        => search.answer.tested = search.executed

(***************************************************************************)
(* The function slots the three generators emit: the functions of the      *)
(* programs ConstraintSolver.tryBuildProgram, FinalSolver.searchDepth and  *)
(* AdvancedSolver.searchWithLimits hand to the VM, for a list of           *)
(* instruction names and a list of budgets, over every total.  The record  *)
(* calc holds the two lists, the generators that have run and their slots.  *)
(***************************************************************************)
\* the longest budget of a function
MaxSlot == 3

\* the functions of the programs of a sequence
slotsOf(programs) ==
    {programs[i][f] : i \in DOMAIN programs, f \in 1..Len(programs[1])}

\* the slots of every total from 1 to the sum of the budgets
RECURSIVE constraintSlots(_, _, _)
constraintSlots(names, lengths, total) ==
    IF total = 0 THEN {}
    ELSE LET programs == tryBuildProgram(buildInstructions("constraint", names), lengths, total)
         IN  (IF programs = <<>> THEN {} ELSE slotsOf(programs))
                \cup constraintSlots(names, lengths, total - 1)

RECURSIVE finalSlots(_, _, _)
finalSlots(names, lengths, total) ==
    IF total = 0 THEN {}
    ELSE LET programs == searchDepth(buildInstructions("final", names), lengths, total)
         IN  (IF programs = <<>> THEN {} ELSE slotsOf(programs))
                \cup finalSlots(names, lengths, total - 1)

\* the slots of the widest instruction limit, which holds those of the others
advancedSlots(names, lengths, total) ==
    slotsOf(limitedSearch([instructions |-> buildInstructions("final", names),
                           funcLengths |-> lengths, maxInstr |-> total],
                          0, 0, emptyProgram(Len(lengths))))

\* the lists of instruction names the generators are run on
RuleNames ==
    {<<"TL", "TR">>, <<"TL", "TR", "C1">>, <<"FW", "TL", "TR">>,
     <<"FW", "F0">>, <<"FW", "F0", "C1">>, <<"TL", "F0", "F1", "C2">>,
     <<"FW", "TL", "TR", "F0">>, <<"P1", "TR", "F1", "C3">>}

RuleBudgets == {<<len>> : len \in 1..MaxSlot} \cup {<<2, 1>>, <<1, 2>>}

InitRules ==
    /\ levelData = Corridor(1)
    /\ vm = "none"
    /\ programFunctions = <<>>
    /\ maxSteps = SearchSteps
    /\ state = initialState(levelData, programFunctions)
    /\ status = "ready"
    /\ result = NoResult
    /\ hist = <<>>
    /\ stateCache = {}
    /\ run = 1
    /\ first = NoResult
    /\ search = Idle
    /\ solverObject = Idle
    /\ \E names \in RuleNames, lengths \in RuleBudgets :
          calc = [op |-> "slots", names |-> names, lengths |-> lengths,
                  ran |-> {},
                  constraint |-> {}, final |-> {}, advanced |-> {}]

\* ConstraintSolver's generator is run
EmitConstraint ==
    /\ calc.op = "slots"
    /\ "constraint" \notin calc.ran
    /\ calc' = [calc EXCEPT !.ran = @ \cup {"constraint"}, !.constraint =
                   constraintSlots(calc.names, calc.lengths, sum(calc.lengths))]
    /\ UNCHANGED <<vmVars, search, solverObject>>

\* FinalSolver's generator is run
EmitFinal ==
    /\ calc.op = "slots"
    /\ "final" \notin calc.ran
    /\ calc' = [calc EXCEPT !.ran = @ \cup {"final"}, !.final =
                   finalSlots(calc.names, calc.lengths, sum(calc.lengths))]
    /\ UNCHANGED <<vmVars, search, solverObject>>

\* AdvancedSolver's generator is run
EmitAdvanced ==
    /\ calc.op = "slots"
    /\ "advanced" \notin calc.ran
    /\ calc' = [calc EXCEPT !.ran = @ \cup {"advanced"}, !.advanced =
                   advancedSlots(calc.names, calc.lengths, sum(calc.lengths))]
    /\ UNCHANGED <<vmVars, search, solverObject>>

NextRules == EmitConstraint \/ EmitFinal \/ EmitAdvanced

SpecRules == InitRules /\ [][NextRules]_vars

\* the slots emitted so far, by all generators that have run
Emitted == calc.constraint \cup calc.final \cup calc.advanced

\* a call without a guard: F0, F1 or F2
BareCall(instr) == instr \in {7, 8, 9}

\* a call under a guard
GuardedCall(instr) == instr # Null /\ instr > 100 /\ instr % 100 \in {7, 8, 9}

\* the entries of the slot that hold an instruction, in order
InstructionsOf(slot) == SelectSeq(slot, LAMBDA entry : entry # Null)

\* an instruction of the slot follows a call without a guard
FollowsBareCall(slot) ==
    \E k \in 1..(Len(slot) - 1) : BareCall(slot[k])

\* an instruction of the slot follows a call under a guard
FollowsGuardedCall(slot) ==
    \E k \in 1..(Len(slot) - 1) : GuardedCall(slot[k])

\* the instructions of the names include a call under a guard
HasGuardedCall(names) ==
    \E i \in DOMAIN buildInstructionSet(names) : GuardedCall(buildInstructionSet(names)[i])

AllRun == calc.ran = {"constraint", "final", "advanced"}

\* the slots of one generator
SlotsOf(generator) ==
    CASE generator = "constraint" -> calc.constraint
      [] generator = "final" -> calc.final
      [] OTHER -> calc.advanced

\* the longest budget of the functions
LongestBudget == CHOOSE n \in Range(calc.lengths) : \A m \in Range(calc.lengths) : m <= n

\* C32: no generator emits a function slot in which an instruction follows a
\* call without a guard, and every generator that is given a call under a
\* guard and a slot of two entries or more emits a slot in which an
\* instruction follows a call under a guard.
C32_PostCallTermination ==
    /\ \A slot \in Emitted : ~FollowsBareCall(InstructionsOf(slot))
    /\ \A generator \in calc.ran :
          (HasGuardedCall(calc.names) /\ LongestBudget >= 2)
             => \E slot \in SlotsOf(generator) : FollowsGuardedCall(InstructionsOf(slot))

\* all three generators have run on a list with calls of both kinds and a long slot
C32_Witness ==
    /\ AllRun
    /\ calc.names = <<"TL", "F0", "F1", "C2">>
    /\ calc.lengths = <<MaxSlot>>
    /\ <<207, 7>> \in calc.constraint \cap calc.final \cap calc.advanced
    /\ <<7>> \in calc.constraint \cap calc.final \cap calc.advanced

\* a turn to the left or to the right, under any guard
IsTurn(instr) == instr # Null /\ instr % 100 \in {2, 3}

\* two turns of one direction and then one of the other, from entry k on
Roundabout(slot, k) ==
    \/ slot[k] % 100 = 2 /\ slot[k + 1] % 100 = 2 /\ slot[k + 2] % 100 = 3
    \/ slot[k] % 100 = 3 /\ slot[k + 1] % 100 = 3 /\ slot[k + 2] % 100 = 2

HasRoundabout(slot) == \E k \in 1..(Len(slot) - 2) : Roundabout(slot, k)

\* the turns among the instructions of the names
Turns == {instr \in Range(buildInstructionSet(calc.names)) : IsTurn(instr)}

\* the sequences of turns that fit a slot, the empty one apart
TurnSequences == SeqsUpTo(Turns, LongestBudget) \ {<<>>}

\* C33: no generator emits a slot with TL,TL,TR or TR,TR,TL in a row, every
\* generator emits every other sequence of turns, and ConstraintSolver,
\* FinalSolver and AdvancedSolver emit the same slots.
C33_RoundaboutElimination ==
    /\ \A slot \in Emitted : ~HasRoundabout(InstructionsOf(slot))
    /\ \A generator \in calc.ran : \A turns \in TurnSequences :
          ~HasRoundabout(turns)
             => \E slot \in SlotsOf(generator) : InstructionsOf(slot) = turns
    /\ AllRun => /\ {InstructionsOf(slot) : slot \in calc.constraint} \ {<<>>}
                       = calc.final \ {<<>>}
                 /\ calc.advanced \ {<<>>} = calc.final \ {<<>>}

\* all three generators have run on turns of both directions and a long slot
C33_Witness ==
    /\ AllRun
    /\ calc.names = <<"TL", "TR", "C1">>
    /\ calc.lengths = <<MaxSlot>>
    /\ <<2, 2, 102>> \in calc.constraint \cap calc.final \cap calc.advanced
    /\ <<2, 3, 2>> \in calc.constraint \cap calc.final \cap calc.advanced
    /\ <<2, 2, 103>> \notin Emitted

(***************************************************************************)
(* The first solved candidate.  ConstraintSolver.tryBuildProgram and       *)
(* FinalSolver.searchDepth return from every level of their recursion as   *)
(* soon as the VM reports a program solved; the object they return holds a *)
(* copy of the program array as the VM ran it and the VM's steps, and      *)
(* solve returns it.                                                       *)
(***************************************************************************)
\* this step runs a program the VM solves the level with
RunsSolved ==
    /\ RunsProgram
    /\ execute(search.solver, levelData, Head(search.queue)).solved

\* solve returns the program of this step with the steps of its run
ReturnsThisRun ==
    LET program == Head(search.queue)
        outcome == execute(search.solver, levelData, program)
    IN  /\ search'.pc = "done"
        /\ search'.answer.solved
        /\ search'.answer.program = program
        /\ search'.answer.steps = outcome.steps

\* the run of the returned program on the level solve was given
Rerun == execute(search.solver, levelData, search.answer.program)

\* C34: the step that runs a solved candidate returns that program with the
\* VM's steps, no program is run and nothing changes after solve has
\* returned, a solution is returned by no other step, and the returned
\* program, run again on the same level, is solved in the same steps.
C34_FirstSolvedReturned ==
    /\ [][RunsSolved => ReturnsThisRun]_vars
    /\ [][Returned => ~RunsProgram /\ search' = search]_vars
    /\ [][(~Returned /\ search'.pc = "done" /\ search'.answer.solved) => RunsSolved]_vars
    /\ [](ReturnedSolution =>
             /\ Rerun.solved
             /\ Rerun.steps = search.answer.steps)

\* a solution returned after candidates that failed, in more than one step
C34_Witness ==
    /\ ReturnedSolution
    /\ search.tested >= 3
    /\ search.answer.steps >= 2
    /\ Rerun.solved

====
